---- MODULE Spec2Model ----
(***************************************************************************)
(* Incremental-backup change-detection ledger                              *)
(* (jphansen/microsoft-365-backup-tools).                                  *)
(*                                                                         *)
(* The module models                                                       *)
(*   - the SQLite ledger store of checksum_db.py (tables backup_files,     *)
(*     file_history, backup_history) and its enhanced / Exchange variants, *)
(*   - the change-detection decisions built on it,                         *)
(*   - the SharePoint incremental driver (sharepoint_incremental_backup.py)*)
(*   - the Exchange immutable-identifier driver                            *)
(*     (exchange_incremental_optimized.py),                                *)
(*   - the rebuild of the ledger from the backup tree                      *)
(*     (rebuild_databases.py).                                             *)
(*                                                                         *)
(* Every specification below ranges over the same variables; the parts a   *)
(* specification does not exercise stay at their initial value.            *)
(***************************************************************************)
EXTENDS Integers, Sequences, FiniteSets, TLC

(***************************************************************************)
(* Bounds of the model.                                                    *)
(***************************************************************************)
MaxUpserts == 2        \* update_file_record calls of the concurrent callers
MaxSeqUpserts == 3     \* Upserts of the sequential caller
MaxSessions == 1       \* start_backup_session calls on the store
MaxClock == 1          \* days that pass
max_workers == 2       \* threads of the pool of _backup_site
MaxRuns == 2           \* runs of backup_all of the Exchange driver
PriorSessions == 9     \* sessions an older store holds before the caller comes
MaxStatSessions == 3   \* sessions the caller of the statistics runs
MaxFailedSessions == 1 \* of them, sessions that end as failed

(***************************************************************************)
(* Input domains.                                                          *)
(***************************************************************************)
Sites == {"site-1", "site-2"}
Paths == {"/docs/a.txt"}
Workers == {1, 2}

\* A fingerprint as update_file_record receives it: file_size, last_modified,
\* checksum, and the eTag the enhanced store also takes.  Two of them share the
\* size and differ in checksum, two share the checksum and differ in size.
Fingerprints ==
    { [file_size |-> 100, last_modified |-> "t1", checksum |-> "aaa", eTag |-> "e1"],
      [file_size |-> 100, last_modified |-> "t2", checksum |-> "bbb", eTag |-> "e2"],
      [file_size |-> 200, last_modified |-> "t2", checksum |-> "aaa", eTag |-> "e1"] }

BackupTypes == {"full", "incremental"}
KeepDays == {0, 1}

\* Python's None / SQL NULL for a row id.
NoId == 0

\* Python's None / SQL NULL for a text column.
PyNone == "None"

VARIABLES
    db,        \* the SQLite file of BackupChecksumDB: its three tables and
               \* their AUTOINCREMENT sequences
    xdb,       \* the SQLite file of ExchangeChecksumDB
    edb,       \* the SQLite file of EnhancedChecksumDB
    clock,     \* CURRENT_TIMESTAMP / datetime('now'), in days
    up,        \* per worker thread: where it stands in update_file_record
    calls,     \* number of Upsert calls begun; of sessions begun by the
               \* caller of the statistics
    applied,   \* per key, the Upserts that returned, in order, each with the
               \* version and history count it left behind
    failed,    \* the Upserts that raised
    decision,  \* the last change-detection call: its arguments and its return
               \* value; cleared by the next operation on the store
    main,      \* the thread in backup_all_sites: where it stands, its locals
    task,      \* per drive: the pool task running _backup_drive
    stats,     \* self.stats of the SharePoint driver
    run,       \* what the run did so far: the ledger it started from, the
               \* update_backup_session calls, per site and per file the outcome
    mail,      \* the thread in backup_all of the Exchange driver
    xstats,    \* self.stats of the Exchange driver
    xrun,      \* what the Exchange run did so far: per new message id how its
               \* fetch went, the ids warned about, the ids an exception was
               \* raised for
    tree,      \* the backup tree on disk: the session directories that hold a
               \* site_metadata.json
    rebuild,   \* rebuild_sharepoint_db: where it stands, its arguments, its
               \* locals and its stats
    rebuilt,   \* the rebuilds that returned, in order: what each found in the
               \* ledger, left in it, reported and what an export then gave
    layout,    \* a session directory of the Exchange tree and what
               \* _session_is_multi_user returned for it
    queried,   \* what the last get_backup_stats and get_exchange_backup_stats
               \* returned, and for which window
    xtree,     \* the Exchange backup tree on disk: per user directory and
               \* session name the session directory, if there is one
    xrebuild,  \* rebuild_exchange_db: where it stands, its arguments, its
               \* locals and its stats
    graph      \* one call of _make_graph_request: where it stands, the
               \* requests sent, the token refreshes, the response returned

storeVars == <<db, xdb, edb, clock, up, calls, applied, failed, decision>>

exchangeVars == <<mail, xstats, xrun>>

rebuildVars == <<tree, rebuild, rebuilt, layout>>

queryVars == <<queried>>

otherVars == <<xtree, xrebuild, graph>>

driverVars == <<main, task, stats, run, exchangeVars, rebuildVars, queryVars, otherVars>>

\* What no step of the SharePoint driver touches.
storeSide == <<xdb, edb, clock, up, calls, applied, failed, decision, exchangeVars,
               rebuildVars, queryVars, otherVars>>

\* What no step of the Exchange driver touches.
exchangeSide == <<db, edb, clock, up, calls, applied, failed, decision,
                  main, task, stats, run, rebuildVars, queryVars, otherVars>>

Keys == Sites \X Paths

(***************************************************************************)
(* checksum_db.py : BackupChecksumDB                                       *)
(***************************************************************************)

\* _init_db: three empty tables.
EmptyDb ==
    [ backup_files |-> {}, file_history |-> {}, backup_history |-> {},
      seq_backup_files |-> 0, seq_file_history |-> 0, seq_backup_history |-> 0 ]

\* SELECT ... FROM backup_files WHERE site_id = ? AND file_path = ?
SelectFile(d, site, path) ==
    { r \in d.backup_files : r.site_id = site /\ r.file_path = path }

\* cursor.fetchone(): the first row (lowest rowid) or None.
FetchOne(rows) ==
    IF rows = {} THEN {}
    ELSE { CHOOSE r \in rows : \A q \in rows : r.id <= q.id }

\* get_file_record: the set holding the row, or the empty set for None.
get_file_record(d, site, path) == FetchOne(SelectFile(d, site, path))

\* The SELECT id, version that opens update_file_record; NoId when no row.
SelectExistingId(d, site, path) ==
    LET rows == get_file_record(d, site, path)
    IN  IF rows = {} THEN NoId ELSE (CHOOSE r \in rows : TRUE).id

\* INSERT INTO file_history (...) SELECT id, version, checksum_sha256,
\* file_size, last_modified FROM backup_files WHERE id = ?
ArchiveOld(d, file_id, now) ==
    LET src == { r \in d.backup_files : r.id = file_id }
    IN  IF src = {} THEN d
        ELSE LET r == CHOOSE x \in src : TRUE
                 h == [ id |-> d.seq_file_history + 1,
                        file_id |-> r.id,
                        version |-> r.version,
                        checksum_sha256 |-> r.checksum_sha256,
                        file_size |-> r.file_size,
                        last_modified |-> r.last_modified,
                        backup_timestamp |-> now ]
             IN  [d EXCEPT !.file_history = @ \cup {h},
                           !.seq_file_history = @ + 1]

\* UPDATE backup_files SET file_size = ?, last_modified = ?, checksum_sha256 = ?,
\* backup_timestamp = CURRENT_TIMESTAMP, version = version + 1 WHERE id = ?
UpdateFile(d, file_id, fp, now) ==
    [d EXCEPT !.backup_files =
        { IF r.id = file_id
          THEN [r EXCEPT !.file_size = fp.file_size,
                         !.last_modified = fp.last_modified,
                         !.checksum_sha256 = fp.checksum,
                         !.backup_timestamp = now,
                         !.version = @ + 1]
          ELSE r : r \in @ }]

NewFileRow(d, site, path, fp, now) ==
    [ id |-> d.seq_backup_files + 1,
      site_id |-> site,
      file_path |-> path,
      file_size |-> fp.file_size,
      last_modified |-> fp.last_modified,
      checksum_sha256 |-> fp.checksum,
      backup_timestamp |-> now,
      version |-> 1 ]

\* The same INSERT on a table declared without UNIQUE(site_id, file_path).
InsertFileNoUnique(d, site, path, fp, now) ==
    [ db |-> [d EXCEPT !.backup_files = @ \cup {NewFileRow(d, site, path, fp, now)},
                       !.seq_backup_files = @ + 1],
      ok |-> TRUE ]

\* INSERT INTO backup_files (...) VALUES (...), under UNIQUE(site_id, file_path):
\* a second row for the key raises sqlite3.IntegrityError and inserts nothing.
InsertFile(d, site, path, fp, now) ==
    IF SelectFile(d, site, path) # {}
    THEN [ db |-> d, ok |-> FALSE ]
    ELSE [ db |-> [d EXCEPT !.backup_files =
                                @ \cup {NewFileRow(d, site, path, fp, now)},
                            !.seq_backup_files = @ + 1],
           ok |-> TRUE ]

\* update_file_record's write with the archive taken after the UPDATE.
update_file_record_write_ArchiveAfter(d, existing, site, path, fp, now) ==
    IF existing # NoId
    THEN [ db |-> ArchiveOld(UpdateFile(d, existing, fp, now), existing, now),
           ok |-> TRUE ]
    ELSE InsertFile(d, site, path, fp, now)

\* update_file_record's write made a no-op when the row already holds fp.
update_file_record_write_Dedup(d, existing, site, path, fp, now) ==
    IF existing # NoId
    THEN IF \E r \in d.backup_files :
                /\ r.id = existing
                /\ r.file_size = fp.file_size
                /\ r.checksum_sha256 = fp.checksum
                /\ r.last_modified = fp.last_modified
         THEN [ db |-> d, ok |-> TRUE ]
         ELSE [ db |-> UpdateFile(ArchiveOld(d, existing, now), existing, fp, now),
                ok |-> TRUE ]
    ELSE InsertFile(d, site, path, fp, now)

\* The write transaction of update_file_record, entered with the id the SELECT
\* returned: archive + update when a row was seen, insert otherwise.  The
\* sqlite3 module opens the transaction at the first INSERT/UPDATE and commits
\* it when the `with` block ends, so the two statements are one atomic step;
\* the SELECT before it ran outside the transaction.
update_file_record_write(d, existing, site, path, fp, now) ==
    IF existing # NoId
    THEN [ db |-> UpdateFile(ArchiveOld(d, existing, now), existing, fp, now),
           ok |-> TRUE ]
    ELSE InsertFile(d, site, path, fp, now)

\* update_file_record run without interleaving.
update_file_record(d, site, path, fp, now) ==
    update_file_record_write(d, SelectExistingId(d, site, path), site, path, fp, now)

\* start_backup_session: INSERT ... VALUES (?, ?, CURRENT_TIMESTAMP, 'running')
start_backup_session(d, backup_type, now) ==
    [d EXCEPT !.backup_history = @ \cup
                { [ id |-> d.seq_backup_history + 1,
                    backup_type |-> backup_type,
                    start_time |-> now,
                    end_time |-> -1,
                    files_backed_up |-> 0,
                    files_skipped |-> 0,
                    total_size |-> 0,
                    status |-> "running",
                    error_message |-> "NULL" ] },
              !.seq_backup_history = @ + 1]

\* update_backup_session: UPDATE backup_history SET end_time = CURRENT_TIMESTAMP,
\* files_backed_up = ?, ... , status = ?, error_message = ? WHERE id = ?
update_backup_session(d, session_id, a, now) ==
    [d EXCEPT !.backup_history =
        { IF s.id = session_id
          THEN [s EXCEPT !.end_time = now,
                         !.files_backed_up = a.files_backed_up,
                         !.files_skipped = a.files_skipped,
                         !.total_size = a.total_size,
                         !.status = a.status,
                         !.error_message = a.error_message]
          ELSE s : s \in @ }]

\* cleanup_old_records with a second DELETE that has no WHERE clause.
cleanup_old_records_AllHistory(d, keep_days, now) ==
    LET old == { s \in d.backup_history : s.start_time < now - keep_days }
    IN  IF Cardinality(old) > 0
        THEN [d EXCEPT !.backup_history = @ \ old, !.file_history = {}]
        ELSE d

\* cleanup_old_records(keep_days): the sessions WHERE start_time <
\* datetime('now', '-keep_days days') are counted; when there are any they are
\* deleted, and then the file_history rows WHERE file_id NOT IN (SELECT id
\* FROM backup_files).
cleanup_old_records(d, keep_days, now) ==
    LET old == { s \in d.backup_history : s.start_time < now - keep_days }
    IN  IF Cardinality(old) > 0
        THEN [d EXCEPT !.backup_history = @ \ old,
                       !.file_history =
                           { h \in @ : h.file_id \in { r.id : r \in d.backup_files } }]
        ELSE d

\* is_file_unchanged without its quick size check.
is_file_unchanged_NoSizeCheck(d, site, path, current_checksum, current_size) ==
    LET record == get_file_record(d, site, path)
    IN  IF record = {} THEN [ unchanged |-> FALSE, record |-> {} ]
        ELSE IF current_checksum # (CHOOSE r \in record : TRUE).checksum_sha256
        THEN [ unchanged |-> FALSE, record |-> record ]
        ELSE [ unchanged |-> TRUE, record |-> record ]

\* is_file_unchanged: the pair (is_unchanged, file_record) it returns; the
\* record is the set holding the row, or the empty set for None.
is_file_unchanged(d, site, path, current_checksum, current_size) ==
    LET record == get_file_record(d, site, path)
    IN  IF record = {} THEN [ unchanged |-> FALSE, record |-> {} ]
        ELSE IF current_size # (CHOOSE r \in record : TRUE).file_size
        THEN [ unchanged |-> FALSE, record |-> record ]
        ELSE IF current_checksum # (CHOOSE r \in record : TRUE).checksum_sha256
        THEN [ unchanged |-> FALSE, record |-> record ]
        ELSE [ unchanged |-> TRUE, record |-> record ]

\* The decision a (is_unchanged, record) pair stands for: the callers treat
\* (False, None) as a new unit, (False, record) as a changed one.
Classify(ret) ==
    IF ret.unchanged THEN "Unchanged"
    ELSE IF ret.record = {} THEN "New" ELSE "Changed"

(***************************************************************************)
(* exchange_checksum_db.py : ExchangeChecksumDB                            *)
(* Of the columns of email_messages the model keeps the key, the size, the *)
(* checksum, the version and the timestamp; folder, subject, sender and    *)
(* attachment columns are written as given and read by no decision.        *)
(***************************************************************************)
EmptyXdb ==
    [ email_messages |-> {}, email_history |-> {}, exchange_backup_history |-> {},
      seq_email_messages |-> 0, seq_email_history |-> 0,
      seq_exchange_backup_history |-> 0 ]

\* SELECT ... FROM email_messages WHERE user_id = ? AND message_id = ?
SelectEmail(x, user, msg) ==
    { r \in x.email_messages : r.user_id = user /\ r.message_id = msg }

get_email_record(x, user, msg) == FetchOne(SelectEmail(x, user, msg))

\* get_user_email_records without its WHERE clause.
get_user_email_records_AllUsers(x, user) == x.email_messages

\* get_user_email_records: SELECT * FROM email_messages WHERE user_id = ?
get_user_email_records(x, user) ==
    { r \in x.email_messages : r.user_id = user }

SelectExistingEmailId(x, user, msg) ==
    LET rows == get_email_record(x, user, msg)
    IN  IF rows = {} THEN NoId ELSE (CHOOSE r \in rows : TRUE).id

\* INSERT INTO email_history (email_id, version, checksum_sha256, message_size)
\* SELECT id, version, checksum_sha256, message_size FROM email_messages WHERE id = ?
ArchiveOldEmail(x, email_id, now) ==
    LET src == { r \in x.email_messages : r.id = email_id }
    IN  IF src = {} THEN x
        ELSE LET r == CHOOSE y \in src : TRUE
                 h == [ id |-> x.seq_email_history + 1,
                        email_id |-> r.id,
                        version |-> r.version,
                        checksum_sha256 |-> r.checksum_sha256,
                        message_size |-> r.message_size,
                        backup_timestamp |-> now ]
             IN  [x EXCEPT !.email_history = @ \cup {h},
                           !.seq_email_history = @ + 1]

\* UPDATE email_messages SET ..., message_size = ?, checksum_sha256 = ?,
\* backup_timestamp = CURRENT_TIMESTAMP, version = version + 1 WHERE id = ?
UpdateEmail(x, email_id, message_size, checksum, now) ==
    [x EXCEPT !.email_messages =
        { IF r.id = email_id
          THEN [r EXCEPT !.message_size = message_size,
                         !.checksum_sha256 = checksum,
                         !.backup_timestamp = now,
                         !.version = @ + 1]
          ELSE r : r \in @ }]

\* INSERT INTO email_messages (...) VALUES (...), under UNIQUE(user_id, message_id).
InsertEmail(x, user, msg, message_size, checksum, now) ==
    IF SelectEmail(x, user, msg) # {}
    THEN [ db |-> x, ok |-> FALSE ]
    ELSE [ db |-> [x EXCEPT !.email_messages = @ \cup
                              { [ id |-> x.seq_email_messages + 1,
                                  user_id |-> user,
                                  message_id |-> msg,
                                  message_size |-> message_size,
                                  checksum_sha256 |-> checksum,
                                  backup_timestamp |-> now,
                                  version |-> 1 ] },
                            !.seq_email_messages = @ + 1],
           ok |-> TRUE ]

\* An update_email_record that reports success and writes nothing.
update_email_record_Unwritten(x, user, msg, message_size, checksum, now) ==
    [ db |-> x, ok |-> TRUE ]

\* update_email_record, run without interleaving.
update_email_record(x, user, msg, message_size, checksum, now) ==
    LET existing == SelectExistingEmailId(x, user, msg)
    IN  IF existing # NoId
        THEN [ db |-> UpdateEmail(ArchiveOldEmail(x, existing, now), existing,
                                  message_size, checksum, now),
               ok |-> TRUE ]
        ELSE InsertEmail(x, user, msg, message_size, checksum, now)

\* start_exchange_backup_session
start_exchange_backup_session(x, backup_type, now) ==
    [x EXCEPT !.exchange_backup_history = @ \cup
                { [ id |-> x.seq_exchange_backup_history + 1,
                    backup_type |-> backup_type,
                    start_time |-> now,
                    end_time |-> -1,
                    emails_backed_up |-> 0,
                    emails_skipped |-> 0,
                    status |-> "running",
                    error_message |-> "NULL" ] },
              !.seq_exchange_backup_history = @ + 1]

\* update_exchange_backup_session
update_exchange_backup_session(x, session_id, a, now) ==
    [x EXCEPT !.exchange_backup_history =
        { IF s.id = session_id
          THEN [s EXCEPT !.end_time = now,
                         !.emails_backed_up = a.emails_backed_up,
                         !.emails_skipped = a.emails_skipped,
                         !.status = a.status,
                         !.error_message = a.error_message]
          ELSE s : s \in @ }]

\* ExchangeChecksumDB.cleanup_old_records(keep_days)
exchange_cleanup_old_records(x, keep_days, now) ==
    LET old == { s \in x.exchange_backup_history : s.start_time < now - keep_days }
    IN  IF Cardinality(old) > 0
        THEN [x EXCEPT !.exchange_backup_history = @ \ old,
                       !.email_history =
                           { h \in @ : h.email_id \in { r.id : r \in x.email_messages } }]
        ELSE x

(***************************************************************************)
(* checksum_db_enhanced.py : EnhancedChecksumDB                            *)
(* backup_files carries eTag and cTag; cTag is stored as given and read by *)
(* no decision, and is left out.  NULL is the string "NULL".               *)
(***************************************************************************)
EmptyEdb ==
    [ backup_files |-> {}, file_history |-> {},
      seq_backup_files |-> 0, seq_file_history |-> 0 ]

\* get_file_record keyed by (site_id, file_path), as the table's UNIQUE key is.
enhanced_get_file_record_ByKey(e, site, path) ==
    FetchOne({ r \in e.backup_files : r.site_id = site /\ r.file_path = path })

\* EnhancedChecksumDB.get_file_record(file_path):
\* SELECT * FROM backup_files WHERE file_path = ?  -- site_id is not consulted;
\* fetchone() takes the first row of the table scan.
enhanced_get_file_record(e, site, path) ==
    FetchOne({ r \in e.backup_files : r.file_path = path })

EnhancedArchiveOld(e, file_id, now) ==
    LET src == { r \in e.backup_files : r.id = file_id }
    IN  IF src = {} THEN e
        ELSE LET r == CHOOSE y \in src : TRUE
                 h == [ id |-> e.seq_file_history + 1,
                        file_id |-> r.id,
                        version |-> r.version,
                        checksum_sha256 |-> r.checksum_sha256,
                        file_size |-> r.file_size,
                        last_modified |-> r.last_modified,
                        eTag |-> r.eTag,
                        backup_timestamp |-> now ]
             IN  [e EXCEPT !.file_history = @ \cup {h},
                           !.seq_file_history = @ + 1]

\* EnhancedChecksumDB.update_file_record, run without interleaving.
enhanced_update_file_record(e, site, path, fp, now) ==
    LET rows == FetchOne({ r \in e.backup_files :
                             r.site_id = site /\ r.file_path = path })
    IN  IF rows # {}
        THEN LET file_id == (CHOOSE r \in rows : TRUE).id
                 a == EnhancedArchiveOld(e, file_id, now)
             IN  [ db |-> [a EXCEPT !.backup_files =
                             { IF r.id = file_id
                               THEN [r EXCEPT !.file_size = fp.file_size,
                                              !.last_modified = fp.last_modified,
                                              !.checksum_sha256 = fp.checksum,
                                              !.eTag = fp.eTag,
                                              !.backup_timestamp = now,
                                              !.version = @ + 1]
                               ELSE r : r \in @ }],
                   ok |-> TRUE ]
        ELSE [ db |-> [e EXCEPT !.backup_files = @ \cup
                              { [ id |-> e.seq_backup_files + 1,
                                  site_id |-> site,
                                  file_path |-> path,
                                  file_size |-> fp.file_size,
                                  last_modified |-> fp.last_modified,
                                  checksum_sha256 |-> fp.checksum,
                                  eTag |-> fp.eTag,
                                  backup_timestamp |-> now,
                                  version |-> 1 ] },
                            !.seq_backup_files = @ + 1],
               ok |-> TRUE ]

\* is_file_unchanged_by_metadata(file_meta): file_meta carries file_path, eTag
\* and size (and no site_id); _has_file_changed of the optimized drivers is the
\* same test returning only the negated flag.
is_file_unchanged_by_metadata(e, site, path, current_eTag, current_size) ==
    LET record == enhanced_get_file_record(e, site, path)
    IN  IF record = {} THEN [ unchanged |-> FALSE, record |-> {} ]
        ELSE LET r == CHOOSE y \in record : TRUE
             IN  IF current_eTag # r.eTag \/ current_size # r.file_size
                 THEN [ unchanged |-> FALSE, record |-> record ]
                 ELSE [ unchanged |-> TRUE, record |-> record ]

(***************************************************************************)
(* The stores under their callers.                                         *)
(***************************************************************************)
IdleUp == [ pc |-> "idle", site |-> "", path |-> "", existing |-> NoId,
            fp |-> [file_size |-> 0, last_modified |-> "", checksum |-> "",
                    eTag |-> ""] ]

NoDecision == [ kind |-> "none" ]

\* No statistics were asked for.
NoStats == [ kind |-> "none" ]

HistoryOf(d, file_id) == { h \in d.file_history : h.file_id = file_id }

EmailHistoryOf(x, email_id) == { h \in x.email_history : h.email_id = email_id }

InitStore ==
    /\ db = EmptyDb
    /\ xdb = EmptyXdb
    /\ edb = EmptyEdb
    /\ clock = 0
    /\ up = [w \in Workers |-> IdleUp]
    /\ calls = 0
    /\ applied = [k \in Keys |-> <<>>]
    /\ failed = {}
    /\ decision = NoDecision

\* A worker thread enters update_file_record and runs its SELECT.
UpsertSelect(w, site, path, fp) ==
    /\ up[w].pc = "idle"
    /\ calls < MaxUpserts
    /\ up' = [up EXCEPT ![w] = [ pc |-> "selected", site |-> site, path |-> path,
                                 existing |-> SelectExistingId(db, site, path),
                                 fp |-> fp ]]
    /\ calls' = calls + 1
    /\ UNCHANGED <<db, xdb, edb, clock, applied, failed, decision, driverVars>>

\* The worker runs the write transaction and returns or raises.
UpsertWrite(w) ==
    /\ up[w].pc = "selected"
    /\ LET u == up[w]
           res == update_file_record_write(db, u.existing, u.site, u.path, u.fp, clock)
           k == <<u.site, u.path>>
           r == CHOOSE y \in get_file_record(res.db, u.site, u.path) : TRUE
       IN  /\ db' = res.db
           /\ IF res.ok
              THEN /\ applied' = [applied EXCEPT ![k] =
                          Append(@, [ fp |-> u.fp,
                                      version |-> r.version,
                                      history |-> Cardinality(HistoryOf(res.db, r.id)) ])]
                   /\ UNCHANGED failed
              ELSE /\ failed' = failed \cup
                                  {[site |-> u.site, path |-> u.path, fp |-> u.fp]}
                   /\ UNCHANGED applied
    /\ up' = [up EXCEPT ![w] = IdleUp]
    /\ UNCHANGED <<xdb, edb, clock, calls, decision, driverVars>>

StartSession(backup_type) ==
    /\ db.seq_backup_history < MaxSessions
    /\ db' = start_backup_session(db, backup_type, clock)
    /\ UNCHANGED <<xdb, edb, clock, up, calls, applied, failed, decision, driverVars>>

Tick ==
    /\ clock < MaxClock
    /\ clock' = clock + 1
    /\ UNCHANGED <<db, xdb, edb, up, calls, applied, failed, decision, driverVars>>

Prune(keep_days) ==
    /\ db' = cleanup_old_records(db, keep_days, clock)
    /\ UNCHANGED <<xdb, edb, clock, up, calls, applied, failed, decision, driverVars>>

\* SUM(col) over rows: the set holding the sum, the empty set for the NULL that
\* SUM gives over no row.
RECURSIVE Total(_, _)
Total(rows, col) ==
    IF rows = {} THEN 0
    ELSE LET r == CHOOSE x \in rows : TRUE
         IN  r[col] + Total(rows \ {r}, col)

SqlSum(rows, col) == IF rows = {} THEN {} ELSE { Total(rows, col) }

\* LIMIT 10 of the recent_backups query.
RecentLimit == 10

\* ORDER BY start_time DESC LIMIT n; rows with one start_time come by rowid.
RECURSIVE OrderByStartTimeDesc(_, _)
OrderByStartTimeDesc(rows, n) ==
    IF n = 0 \/ rows = {} THEN <<>>
    ELSE LET r == CHOOSE x \in rows : \A y \in rows :
                      \/ x.start_time > y.start_time
                      \/ x.start_time = y.start_time /\ x.id <= y.id
         IN  <<r>> \o OrderByStartTimeDesc(rows \ {r}, n - 1)

\* SELECT backup_type, COUNT(*) ... GROUP BY backup_type, as a dict.
CountByType(rows) ==
    [ t \in { r.backup_type : r \in rows } |->
        Cardinality({ r \in rows : r.backup_type = t }) ]

\* get_backup_stats without `status = 'completed'` in its WHERE clauses.
get_backup_stats_AnyStatus(d, days, now) ==
    LET inwin == { s \in d.backup_history : s.start_time > now - days }
    IN  [ total_backups |-> Cardinality(inwin),
          total_files_backed_up |-> SqlSum(inwin, "files_backed_up"),
          total_files_skipped |-> SqlSum(inwin, "files_skipped"),
          total_size_backed_up |-> SqlSum(inwin, "total_size"),
          backup_types |-> CountByType(inwin),
          recent_backups |-> OrderByStartTimeDesc(d.backup_history, RecentLimit) ]

\* get_backup_stats(days): COUNT and SUMs over the rows WHERE status =
\* 'completed' AND start_time > datetime('now', '-days days'), their count by
\* backup_type, and the ten latest completed rows of the whole table.
\* avg_files_per_backup is total_files_backed_up / total_backups and is left
\* out.
get_backup_stats(d, days, now) ==
    LET completed == { s \in d.backup_history : s.status = "completed" }
        inwin == { s \in completed : s.start_time > now - days }
    IN  [ total_backups |-> Cardinality(inwin),
          total_files_backed_up |-> SqlSum(inwin, "files_backed_up"),
          total_files_skipped |-> SqlSum(inwin, "files_skipped"),
          total_size_backed_up |-> SqlSum(inwin, "total_size"),
          backup_types |-> CountByType(inwin),
          recent_backups |-> OrderByStartTimeDesc(completed, RecentLimit) ]

\* get_exchange_backup_stats(days), on exchange_backup_history.
get_exchange_backup_stats(x, days, now) ==
    LET completed == { s \in x.exchange_backup_history : s.status = "completed" }
        inwin == { s \in completed : s.start_time > now - days }
    IN  [ total_backups |-> Cardinality(inwin),
          total_emails_backed_up |-> SqlSum(inwin, "emails_backed_up"),
          total_emails_skipped |-> SqlSum(inwin, "emails_skipped"),
          backup_types |-> CountByType(inwin),
          recent_backups |-> OrderByStartTimeDesc(completed, RecentLimit) ]

\* The sessions of the store that are still running.
RunningSessions(d) == { s \in d.backup_history : s.status = "running" }

\* The one caller starts a session in both stores, the one before being over.
BeginSession(backup_type) ==
    /\ calls < MaxStatSessions
    /\ RunningSessions(db) = {}
    /\ db' = start_backup_session(db, backup_type, clock)
    /\ xdb' = start_exchange_backup_session(xdb, backup_type, clock)
    /\ calls' = calls + 1
    /\ queried' = NoStats
    /\ UNCHANGED <<edb, clock, up, applied, failed, decision,
                   main, task, stats, run, exchangeVars, rebuildVars, otherVars>>

\* The caller finishes its session: update_backup_session with the counts of
\* the run and status completed (the default) or failed.
EndSession(status) ==
    /\ RunningSessions(db) # {}
    /\ status = "failed" =>
          Cardinality({ s \in db.backup_history : s.status = "failed" })
              < MaxFailedSessions
    /\ db' = update_backup_session(db, db.seq_backup_history,
                 [ files_backed_up |-> 2, files_skipped |-> 1, total_size |-> 300,
                   status |-> status,
                   error_message |-> IF status = "failed" THEN "error" ELSE "NULL" ],
                 clock)
    /\ xdb' = update_exchange_backup_session(xdb, xdb.seq_exchange_backup_history,
                 [ emails_backed_up |-> 5, emails_skipped |-> 2,
                   status |-> status,
                   error_message |-> IF status = "failed" THEN "error" ELSE "NULL" ],
                 clock)
    /\ queried' = NoStats
    /\ UNCHANGED <<edb, clock, up, calls, applied, failed, decision,
                   main, task, stats, run, exchangeVars, rebuildVars, otherVars>>

\* The stores after n sessions that were run to their end, one after the
\* other, on day 0.
RECURSIVE EarlierSessions(_)
EarlierSessions(n) ==
    IF n = 0 THEN [ file |-> EmptyDb, exchange |-> EmptyXdb ]
    ELSE LET e == EarlierSessions(n - 1)
             d == start_backup_session(e.file, "full", 0)
             x == start_exchange_backup_session(e.exchange, "full", 0)
         IN  [ file |-> update_backup_session(d, d.seq_backup_history,
                            [ files_backed_up |-> 2, files_skipped |-> 1,
                              total_size |-> 300, status |-> "completed",
                              error_message |-> "NULL" ], 0),
               exchange |-> update_exchange_backup_session(x,
                            x.seq_exchange_backup_history,
                            [ emails_backed_up |-> 5, emails_skipped |-> 2,
                              status |-> "completed",
                              error_message |-> "NULL" ], 0) ]

\* The caller asks both stores for the statistics of the last `days` days.
QueryStats(days) ==
    /\ queried' = [ kind |-> "stats", days |-> days, now |-> clock,
                    file |-> get_backup_stats(db, days, clock),
                    exchange |-> get_exchange_backup_stats(xdb, days, clock) ]
    /\ UNCHANGED <<storeVars, main, task, stats, run, exchangeVars, rebuildVars, otherVars>>

\* The one caller starts a session in the file store and in the Exchange store.
OpenSessions(backup_type) ==
    /\ db.seq_backup_history < MaxSessions
    /\ db' = start_backup_session(db, backup_type, clock)
    /\ xdb' = start_exchange_backup_session(xdb, backup_type, clock)
    /\ decision' = NoDecision
    /\ UNCHANGED <<edb, clock, up, calls, applied, failed, driverVars>>

\* The one caller runs cleanup_old_records(keep_days) on both stores.
PruneStores(keep_days) ==
    /\ db' = cleanup_old_records(db, keep_days, clock)
    /\ xdb' = exchange_cleanup_old_records(xdb, keep_days, clock)
    /\ decision' = NoDecision
    /\ UNCHANGED <<edb, clock, up, calls, applied, failed, driverVars>>

\* One caller, one Upsert at a time: the same key and fingerprint go through
\* update_file_record of the file store and of the enhanced store and through
\* update_email_record of the Exchange store (user_id = site, message_id = path).
SeqUpsert(site, path, fp) ==
    /\ calls < MaxSeqUpserts
    /\ LET res == update_file_record(db, site, path, fp, clock)
           xres == update_email_record(xdb, site, path, fp.file_size, fp.checksum, clock)
           eres == enhanced_update_file_record(edb, site, path, fp, clock)
           r == CHOOSE y \in get_file_record(res.db, site, path) : TRUE
           xr == CHOOSE y \in get_email_record(xres.db, site, path) : TRUE
           er == CHOOSE y \in enhanced_get_file_record_ByKey(eres.db, site, path) : TRUE
       IN  /\ db' = res.db
           /\ xdb' = xres.db
           /\ edb' = eres.db
           /\ applied' = [applied EXCEPT ![<<site, path>>] =
                 Append(@, [ fp |-> fp,
                             version |-> r.version,
                             history |-> Cardinality(HistoryOf(res.db, r.id)),
                             xversion |-> xr.version,
                             xhistory |-> Cardinality(EmailHistoryOf(xres.db, xr.id)),
                             eversion |-> er.version,
                             ehistory |-> Cardinality(HistoryOf(eres.db, er.id)) ])]
    /\ calls' = calls + 1
    /\ decision' = NoDecision
    /\ UNCHANGED <<clock, up, failed, driverVars>>

\* A caller asks the checksum strategy about a candidate.
DecideByChecksum(site, path, checksum, size) ==
    /\ decision' = [ kind |-> "checksum", site |-> site, path |-> path,
                     checksum |-> checksum, size |-> size,
                     ret |-> is_file_unchanged(db, site, path, checksum, size) ]
    /\ UNCHANGED <<db, xdb, edb, clock, up, calls, applied, failed, driverVars>>

\* One caller of the enhanced store alone: update_file_record.
TagUpsert(site, path, fp) ==
    /\ calls < MaxSeqUpserts
    /\ edb' = enhanced_update_file_record(edb, site, path, fp, clock).db
    /\ calls' = calls + 1
    /\ decision' = NoDecision
    /\ UNCHANGED <<db, xdb, clock, up, applied, failed, driverVars>>

\* A caller asks the server-tag strategy of the enhanced store about a
\* candidate.
DecideByMetadata(site, path, eTag, size) ==
    /\ decision' = [ kind |-> "metadata", site |-> site, path |-> path,
                     eTag |-> eTag, size |-> size,
                     ret |-> is_file_unchanged_by_metadata(edb, site, path, eTag, size) ]
    /\ UNCHANGED <<db, xdb, edb, clock, up, calls, applied, failed, driverVars>>

(***************************************************************************)
(* sharepoint_incremental_backup.py : SharePointIncrementalBackup          *)
(* The tenant as Graph presents it: two sites, the first with two document *)
(* libraries, each library with the items of its root folder.  Every item  *)
(* has the same size and content; what differs from file to file is what   *)
(* the ledger holds about it from earlier runs.                            *)
(***************************************************************************)
DriverSites == <<"site-1", "site-2">>

DrivesOf(site) == IF site = "site-1" THEN <<"d1", "d2">> ELSE <<"d3">>

ItemsOf(drive) ==
    CASE drive = "d1" -> <<"f1">>
      [] drive = "d2" -> <<"f2", "f3">>
      [] OTHER        -> <<"f4">>

AllDrives == {"d1", "d2", "d3"}

SiteOfDrive(drive) == IF drive \in {"d1", "d2"} THEN "site-1" ELSE "site-2"

\* file_path = f"/drives/{drive_id}/items/{item_id}"
FilePath(drive, item) == "/drives/" \o drive \o "/items/" \o item

AllFiles ==
    UNION { { [site |-> SiteOfDrive(d), path |-> FilePath(d, ItemsOf(d)[n])] :
                n \in 1..Len(ItemsOf(d)) } : d \in AllDrives }

\* item_data of every item and the SHA-256 of its content.
RemoteItem == [ file_size |-> 100, last_modified |-> "t1", checksum |-> "aaa",
                eTag |-> "e1" ]

\* No record of the file.
NoFp == [ file_size |-> 0, last_modified |-> "", checksum |-> "", eTag |-> "" ]

\* The ledger an earlier run left: per file no record, or the record of the
\* fingerprint that run stored.
RECURSIVE PriorLedger(_, _, _)
PriorLedger(d, files, prior) ==
    IF files = {} THEN d
    ELSE LET f == CHOOSE x \in files : TRUE
             d1 == IF prior[f] = NoFp THEN d
                   ELSE update_file_record(d, f.site, f.path, prior[f], 0).db
         IN  PriorLedger(d1, files \ {f}, prior)

IdleTask == [ state |-> "none", k |-> 0, rec |-> {}, checksum |-> "",
              tmp |-> 0, existing |-> NoId ]

IdleMain == [ pc |-> "idle", backup_type |-> "", session_id |-> NoId,
              sites |-> <<>>, i |-> 0, drives |-> <<>>, j |-> 0 ]

InitDriver ==
    /\ main = IdleMain
    /\ task = [d \in AllDrives |-> IdleTask]
    /\ stats = [ files_backed_up |-> 0, files_skipped |-> 0, total_size |-> 0 ]
    /\ run = [ db0 |-> db,
               finish_calls |-> 0,
               key_error |-> FALSE,
               site_result |-> [s \in {"site-1", "site-2"} |-> "pending"],
               outcome |-> [f \in AllFiles |-> "pending"],
               upserts |-> [f \in AllFiles |-> 0] ]

Running == { d \in AllDrives :
               task[d].state \notin {"none", "queued", "finished", "raised"} }

CurrentFile(d) == [ site |-> SiteOfDrive(d),
                    path |-> FilePath(d, ItemsOf(d)[task[d].k]) ]

\* The task state after the file in hand: the next item of the folder, or the
\* end of _backup_folder and so of _backup_drive.
NextFile(d) ==
    IF task[d].k < Len(ItemsOf(d))
    THEN [IdleTask EXCEPT !.state = "process", !.k = task[d].k + 1]
    ELSE [IdleTask EXCEPT !.state = "finished", !.k = task[d].k]

FileDone(d, how) ==
    /\ task' = [task EXCEPT ![d] = NextFile(d)]
    /\ run' = [run EXCEPT !.outcome[CurrentFile(d)] = how]

\* A pool thread takes the task up; drive_path.mkdir succeeds and the task
\* goes on to _backup_folder (the request for the drive's metadata is in a
\* try of its own).
BackupDrive(d) ==
    /\ task[d].state = "queued"
    /\ Cardinality(Running) < max_workers
    /\ task' = [task EXCEPT ![d].state = "folder"]
    /\ UNCHANGED <<db, main, stats, run, storeSide>>

\* _backup_drive raises before _backup_folder (the directory cannot be made,
\* the drive has no usable name): the future holds the exception.
BackupDriveRaises(d) ==
    /\ task[d].state = "queued"
    /\ Cardinality(Running) < max_workers
    /\ task' = [task EXCEPT ![d].state = "raised"]
    /\ UNCHANGED <<db, main, stats, run, storeSide>>

\* _backup_folder lists the children of the root folder; a listing that fails
\* is logged and the folder is left.
BackupFolder(d, listed) ==
    /\ task[d].state = "folder"
    /\ task' = [task EXCEPT ![d] =
                  IF listed /\ ItemsOf(d) # <<>>
                  THEN [IdleTask EXCEPT !.state = "process", !.k = 1]
                  ELSE [IdleTask EXCEPT !.state = "finished"]]
    /\ UNCHANGED <<db, main, stats, run, storeSide>>

\* _process_file with the comparison left out.
process_file_unchanged_Never(record, checksum) == FALSE

\* The comparison of _process_file after the download.
process_file_unchanged(record, checksum) ==
    record # {} /\ checksum = (CHOOSE r \in record : TRUE).checksum_sha256

\* _process_file up to the download: a full backup goes straight to
\* _download_file; an incremental one reads the record and takes
\* _download_file when the listed size differs from the recorded one.
ProcessFile(d) ==
    /\ task[d].state = "process"
    /\ LET f == CurrentFile(d)
           ret == is_file_unchanged(db, f.site, f.path, "", RemoteItem.file_size)
           r == CHOOSE y \in ret.record : TRUE
       IN  task' = [task EXCEPT ![d] =
             IF main.backup_type = "full"
             THEN [@ EXCEPT !.state = "download"]
             ELSE IF ret.record # {} /\ RemoteItem.file_size # r.file_size
             THEN [@ EXCEPT !.state = "download", !.rec = ret.record]
             ELSE [@ EXCEPT !.state = "download_with_checksum", !.rec = ret.record]]
    /\ UNCHANGED <<db, main, stats, run, storeSide>>

\* _download_file: on status 200 the content is written and hashed and the
\* record is upserted; anything else is logged and the file is left.
DownloadFile(d, fetched) ==
    /\ task[d].state = "download"
    /\ IF fetched
       THEN /\ task' = [task EXCEPT ![d].state = "upsert_select",
                                    ![d].checksum = RemoteItem.checksum]
            /\ UNCHANGED run
       ELSE FileDone(d, "download_failed")
    /\ UNCHANGED <<db, main, stats, storeSide>>

\* _download_file_with_checksum and the comparison that follows it.
DownloadFileWithChecksum(d, fetched) ==
    /\ task[d].state = "download_with_checksum"
    /\ IF fetched
       THEN /\ task' = [task EXCEPT
                 ![d].checksum = RemoteItem.checksum,
                 ![d].state =
                     IF process_file_unchanged(task[d].rec, RemoteItem.checksum)
                     THEN "load_files_skipped" ELSE "upsert_select"]
            /\ UNCHANGED run
       ELSE FileDone(d, "download_failed")
    /\ UNCHANGED <<db, main, stats, storeSide>>

\* update_file_record, its SELECT.
TaskUpsertSelect(d) ==
    /\ task[d].state = "upsert_select"
    /\ LET f == CurrentFile(d)
       IN  task' = [task EXCEPT ![d].state = "upsert_write",
                                ![d].existing = SelectExistingId(db, f.site, f.path)]
    /\ UNCHANGED <<db, main, stats, run, storeSide>>

\* update_file_record, its write transaction; an sqlite3 error is caught by
\* the except of the caller and logged.
TaskUpsertWrite(d) ==
    /\ task[d].state = "upsert_write"
    /\ LET f == CurrentFile(d)
           fp == [RemoteItem EXCEPT !.checksum = task[d].checksum]
           res == update_file_record_write(db, task[d].existing, f.site, f.path,
                                           fp, clock)
       IN  /\ db' = res.db
           /\ IF res.ok
              THEN /\ task' = [task EXCEPT ![d].state = "load_files_backed_up"]
                   /\ run' = [run EXCEPT !.upserts[f] = @ + 1]
              ELSE FileDone(d, "store_error")
    /\ UNCHANGED <<main, stats, storeSide>>

CounterOf(state) ==
    CASE state \in {"load_files_backed_up", "store_files_backed_up"} -> "files_backed_up"
      [] state \in {"load_total_size", "store_total_size"} -> "total_size"
      [] OTHER -> "files_skipped"

\* self.stats[c] += n is a read of the shared dictionary followed by a write.
LoadCounter(d) ==
    /\ task[d].state \in {"load_files_backed_up", "load_total_size", "load_files_skipped"}
    /\ task' = [task EXCEPT
          ![d].tmp = stats[CounterOf(task[d].state)],
          ![d].state = CASE task[d].state = "load_files_backed_up" -> "store_files_backed_up"
                         [] task[d].state = "load_total_size" -> "store_total_size"
                         [] OTHER -> "store_files_skipped"]
    /\ UNCHANGED <<db, main, stats, run, storeSide>>

StoreCounter(d) ==
    /\ task[d].state \in {"store_files_backed_up", "store_total_size", "store_files_skipped"}
    /\ stats' = [stats EXCEPT ![CounterOf(task[d].state)] =
                    task[d].tmp + (IF task[d].state = "store_total_size"
                                   THEN RemoteItem.file_size ELSE 1)]
    /\ CASE task[d].state = "store_files_backed_up" ->
              /\ task' = [task EXCEPT ![d].state = "load_total_size"]
              /\ UNCHANGED run
         [] task[d].state = "store_total_size" -> FileDone(d, "backed_up")
         [] OTHER -> FileDone(d, "skipped")
    /\ UNCHANGED <<db, main, storeSide>>

SessionArgs(status, error_message) ==
    [ files_backed_up |-> stats.files_backed_up,
      files_skipped |-> stats.files_skipped,
      total_size |-> stats.total_size,
      status |-> status,
      error_message |-> error_message ]

\* The loop body without its try: the exception reaches the outer except.
backup_site_handler_Outer == "finish_failed"

\* Where the exception of _backup_site goes: the except of the loop body logs
\* it and the loop goes on.
backup_site_handler == "site_loop"

\* _print_summary raising after the session was finished as completed.
print_summary_raises_Always == TRUE

\* _print_summary only logs; its division is guarded.
print_summary_raises == FALSE

\* backup_all_sites is entered: the session row is inserted.
BackupAllSites(backup_type) ==
    /\ main.pc = "idle"
    /\ db' = start_backup_session(db, backup_type, clock)
    /\ main' = [main EXCEPT !.pc = "get_sites",
                            !.backup_type = backup_type,
                            !.session_id = db'.seq_backup_history]
    /\ UNCHANGED <<task, stats, run, storeSide>>

\* _get_all_sites: the listed sites, or the empty list when the request
\* fails.
GetAllSites(listed) ==
    /\ main.pc = "get_sites"
    /\ main' = [main EXCEPT !.pc = "site_loop",
                            !.sites = IF listed THEN DriverSites ELSE <<>>,
                            !.i = 1]
    /\ UNCHANGED <<db, task, stats, run, storeSide>>

\* site['id'] of a listed site that carries no id: KeyError, outside the try
\* of the loop body.
SiteKeyError ==
    /\ main.pc = "site_loop"
    /\ main.i <= Len(main.sites)
    /\ main' = [main EXCEPT !.pc = "finish_failed"]
    /\ run' = [run EXCEPT !.key_error = TRUE]
    /\ UNCHANGED <<db, task, stats, storeSide>>

\* _backup_site raises before its pool exists (site directory or
\* site_metadata.json cannot be written).
BackupSiteRaises ==
    /\ main.pc = "site_loop"
    /\ main.i <= Len(main.sites)
    /\ main' = [main EXCEPT !.pc = backup_site_handler,
                            !.i = IF backup_site_handler = "site_loop"
                                  THEN @ + 1 ELSE @]
    /\ run' = [run EXCEPT !.site_result[main.sites[main.i]] = "failed"]
    /\ UNCHANGED <<db, task, stats, storeSide>>

\* _backup_site up to the waiting loop: the drives are listed (the empty list
\* when the request fails) and one task per drive is submitted.
BackupSite(listed) ==
    /\ main.pc = "site_loop"
    /\ main.i <= Len(main.sites)
    /\ LET drives == IF listed THEN DrivesOf(main.sites[main.i]) ELSE <<>>
       IN  /\ main' = [main EXCEPT !.pc = "wait", !.drives = drives, !.j = 1]
           /\ task' = [d \in AllDrives |->
                         IF \E n \in 1..Len(drives) : drives[n] = d
                         THEN [IdleTask EXCEPT !.state = "queued"]
                         ELSE task[d]]
    /\ UNCHANGED <<db, stats, run, storeSide>>

\* A future that does not block its waiter.
future_done_NoWait(state) == TRUE

\* future.result() blocks until the task has returned or raised.
future_done(state) == state \in {"finished", "raised"}

\* future.result() of the next future returns or raises; both are logged.
FutureResult ==
    /\ main.pc = "wait"
    /\ main.j <= Len(main.drives)
    /\ future_done(task[main.drives[main.j]].state)
    /\ main' = [main EXCEPT !.j = @ + 1]
    /\ UNCHANGED <<db, task, stats, run, storeSide>>

\* The with block of the pool is left and _backup_site returns.
BackupSiteReturns ==
    /\ main.pc = "wait"
    /\ main.j > Len(main.drives)
    /\ main' = [main EXCEPT !.pc = "site_loop", !.i = @ + 1]
    /\ run' = [run EXCEPT !.site_result[main.sites[main.i]] = "completed"]
    /\ UNCHANGED <<db, task, stats, storeSide>>

\* After the last site: update_backup_session(..., status='completed').
FinishCompleted ==
    /\ main.pc = "site_loop"
    /\ main.i > Len(main.sites)
    /\ db' = update_backup_session(db, main.session_id,
                                   SessionArgs("completed", "NULL"), clock)
    /\ main' = [main EXCEPT !.pc = "print_summary"]
    /\ run' = [run EXCEPT !.finish_calls = @ + 1]
    /\ UNCHANGED <<task, stats, storeSide>>

PrintSummary ==
    /\ main.pc = "print_summary"
    /\ main' = [main EXCEPT !.pc = IF print_summary_raises
                                   THEN "finish_failed" ELSE "done"]
    /\ UNCHANGED <<db, task, stats, run, storeSide>>

\* The outer except: update_backup_session(..., status='failed',
\* error_message=str(e)) and the exception is raised again.
FinishFailed ==
    /\ main.pc = "finish_failed"
    /\ db' = update_backup_session(db, main.session_id,
                                   SessionArgs("failed", "error"), clock)
    /\ main' = [main EXCEPT !.pc = "raised"]
    /\ run' = [run EXCEPT !.finish_calls = @ + 1]
    /\ UNCHANGED <<task, stats, storeSide>>


(***************************************************************************)
(* exchange_incremental_optimized.py : OptimizedExchangeBackup             *)
(* Two mailboxes with one mail folder each.  What the folder lists, whether*)
(* a message can be fetched in full and whether it has a body are inputs   *)
(* of each step.  The driver works in one thread.                          *)
(***************************************************************************)
ExchangeUsers == <<"u1@x", "u2@x">>

MessageIds == {"m1", "m2", "m3"}

\* What the folder of a user can list: any of the messages in the first
\* mailbox; in the second nothing or one message, with an id that the first
\* mailbox has too.
FolderListings(user) ==
    IF user = "u1@x" THEN SUBSET MessageIds ELSE SUBSET {"m1"}

\* ok: status 200 and a body; no_body: status 200, body content empty;
\* failed: another status or an exception of the request.
FetchResults == {"ok", "no_body", "failed"}

\* checksum=hashlib.sha256(message_id.encode()).hexdigest()
MessageChecksum(msg) == "sha256(" \o msg \o ")"

\* email_meta.size: the fetch selects no size, so from_graph_data takes its
\* default.
MessageSize == 0

\* The attachments of a message: it has none; the list was fetched and every
\* _download_attachment returned the content; or the list came back empty
\* after the three requests failed, or a _download_attachment returned None.
Attachments == {"none", "downloaded", "skipped"}

\* hasAttachments of the fetched message: the second message of the mailbox
\* carries attachments, the others none.
AttachmentsOf(msg) ==
    IF msg = "m2" THEN {"downloaded", "skipped"} ELSE {"none"}

\* sum(len(c) for c in attachment_data.values())
AttachmentBytes(attachments) == IF attachments = "downloaded" THEN 50 ELSE 0

\* What the latest pass over a user's folder listed, and which of those ids it
\* did not bring to update_email_record (fetch warned, or the backup of the
\* single email raised); nothing, when the pass listed nothing.
NotListed == [ listed |-> {}, lost |-> {} ]

IdleMail == [ pc |-> "idle", session_id |-> NoId, users |-> <<>>, i |-> 0,
              current |-> {}, new |-> {}, skipped |-> {}, to_fetch |-> {},
              messages |-> <<>>, m |-> 0, total_new |-> 0 ]

InitStats == [ emails_backed_up |-> 0, emails_skipped |-> 0,
               users_processed |-> 0 ]

InitExchange ==
    /\ mail = IdleMail
    /\ xstats = InitStats
    /\ xrun = [ runs |-> 0,
                finish_calls |-> 0,
                fetch |-> [msg \in MessageIds |-> "none"],
                warned |-> {},
                raised |-> {},
                partial |-> {},
                last |-> [user \in { ExchangeUsers[i] : i \in DOMAIN ExchangeUsers } |->
                             NotListed] ]

\* main(): a driver object is made, with its counters at zero, and backup_all
\* is entered: the session row is inserted.
BackupAll(backup_type) ==
    /\ mail.pc = "idle"
    /\ xrun.runs < MaxRuns
    /\ xdb' = start_exchange_backup_session(xdb, backup_type, clock)
    /\ mail' = [IdleMail EXCEPT !.pc = "get_users",
                                !.session_id = xdb'.seq_exchange_backup_history]
    /\ xstats' = InitStats
    /\ xrun' = [xrun EXCEPT !.runs = @ + 1, !.finish_calls = 0,
                            !.fetch = [msg \in MessageIds |-> "none"],
                            !.warned = {}, !.raised = {}, !.partial = {}]
    /\ UNCHANGED exchangeSide

\* _get_users: the users, or the empty list when the request fails.
GetUsers(listed) ==
    /\ mail.pc = "get_users"
    /\ mail' = [mail EXCEPT !.pc = "user_loop",
                            !.users = IF listed THEN ExchangeUsers ELSE <<>>,
                            !.i = 1]
    /\ UNCHANGED <<xdb, xstats, xrun, exchangeSide>>

\* _backup_user_emails raises outside the try of a single email (the user's
\* directory or user_metadata.json cannot be written); backup_all logs it and
\* goes on to the next user.
BackupUserRaises ==
    /\ mail.pc = "user_loop"
    /\ mail.i <= Len(mail.users)
    /\ mail' = [mail EXCEPT !.i = @ + 1]
    /\ xrun' = [xrun EXCEPT !.last[mail.users[mail.i]] = NotListed]
    /\ UNCHANGED <<xdb, xstats, exchangeSide>>

\* _get_folder_message_ids, get_user_email_records and the two set
\* operations; an empty listing (also that of a failed request) ends the
\* folder.
ClassifyFolder(ids) ==
    /\ mail.pc = "user_loop"
    /\ mail.i <= Len(mail.users)
    /\ ids \in FolderListings(mail.users[mail.i])
    /\ LET user == mail.users[mail.i]
           existing_message_ids ==
               { r.message_id : r \in get_user_email_records(xdb, user) }
       IN  mail' = IF ids = {}
                   THEN [mail EXCEPT !.pc = "folder_done", !.current = {},
                                     !.new = {}, !.skipped = {}, !.to_fetch = {},
                                     !.messages = <<>>, !.m = 0, !.total_new = 0]
                   ELSE [mail EXCEPT !.pc = "classified", !.current = ids,
                                     !.new = ids \ existing_message_ids,
                                     !.skipped = ids \cap existing_message_ids,
                                     !.to_fetch = ids \ existing_message_ids,
                                     !.messages = <<>>, !.m = 0, !.total_new = 0]
    /\ xrun' = [xrun EXCEPT !.fetch = [msg \in MessageIds |-> "none"],
                            !.warned = {}, !.raised = {}]
    /\ UNCHANGED <<xdb, xstats, exchangeSide>>

\* _get_email_batch_data, one message id: on status 200 the message joins the
\* list; anything else is logged as a warning and the id is dropped.
FetchEmail(result) ==
    /\ mail.pc = "classified"
    /\ mail.to_fetch # {}
    /\ LET msg == CHOOSE x \in mail.to_fetch : TRUE
       IN  /\ mail' = [mail EXCEPT
                 !.to_fetch = @ \ {msg},
                 !.messages = IF result = "failed" THEN @
                              ELSE Append(@, [ id |-> msg, body |-> result = "ok" ])]
           /\ xrun' = [xrun EXCEPT
                 !.fetch[msg] = result,
                 !.warned = IF result = "failed" THEN @ \cup {msg} ELSE @]
    /\ UNCHANGED <<xdb, xstats, exchangeSide>>

\* The loop over new_messages begins.
BatchFetched ==
    /\ mail.pc = "classified"
    /\ mail.to_fetch = {}
    /\ mail' = [mail EXCEPT !.pc = "backup", !.m = 1]
    /\ UNCHANGED <<xdb, xstats, xrun, exchangeSide>>

\* _backup_single_email_with_metadata for the next fetched message: without
\* body content it raises; otherwise the attachments are downloaded (a failed
\* download is logged as a warning), the EML file is written (or that raises)
\* and update_email_record is called.  The except of the loop logs an error.
BackupSingleEmail(written, attachments) ==
    /\ mail.pc = "backup"
    /\ mail.m <= Len(mail.messages)
    /\ attachments \in AttachmentsOf(mail.messages[mail.m].id)
    /\ LET message == mail.messages[mail.m]
           user == mail.users[mail.i]
           res == update_email_record(xdb, user, message.id,
                                      MessageSize + AttachmentBytes(attachments),
                                      MessageChecksum(message.id), clock)
       IN  IF message.body /\ written /\ res.ok
           THEN /\ xdb' = res.db
                /\ mail' = [mail EXCEPT !.m = @ + 1, !.total_new = @ + 1]
                /\ xrun' = [xrun EXCEPT
                      !.partial = IF attachments = "skipped"
                                  THEN @ \cup {message.id} ELSE @]
           ELSE /\ mail' = [mail EXCEPT !.m = @ + 1]
                /\ xrun' = [xrun EXCEPT !.raised = @ \cup {message.id}]
                /\ UNCHANGED xdb
    /\ UNCHANGED <<xstats, exchangeSide>>

FolderDone ==
    /\ mail.pc = "backup"
    /\ mail.m > Len(mail.messages)
    /\ mail' = [mail EXCEPT !.pc = "folder_done"]
    /\ UNCHANGED <<xdb, xstats, xrun, exchangeSide>>

\* The end of _backup_user_emails: the three counters are raised, and the
\* locals of the call are gone; what the pass listed and lost is kept in
\* xrun.last for the user.
UserDone ==
    /\ mail.pc = "folder_done"
    /\ xstats' = [ emails_backed_up |-> xstats.emails_backed_up + mail.total_new,
                   emails_skipped |-> xstats.emails_skipped + Cardinality(mail.skipped),
                   users_processed |-> xstats.users_processed + 1 ]
    /\ mail' = [mail EXCEPT !.pc = "user_loop", !.i = @ + 1,
                            !.current = {}, !.new = {}, !.skipped = {},
                            !.to_fetch = {}, !.messages = <<>>, !.m = 0,
                            !.total_new = 0]
    /\ xrun' = [xrun EXCEPT !.last[mail.users[mail.i]] =
                                [ listed |-> mail.current,
                                  lost |-> xrun.warned \cup xrun.raised ],
                            !.fetch = [msg \in MessageIds |-> "none"],
                            !.warned = {}, !.raised = {}, !.partial = {}]
    /\ UNCHANGED <<xdb, exchangeSide>>

\* After the last user: update_exchange_backup_session(..., status='completed').
\* No step of the try raises past its own handlers, so the except of
\* backup_all is not entered.
FinishExchangeCompleted ==
    /\ mail.pc = "user_loop"
    /\ mail.i > Len(mail.users)
    /\ xdb' = update_exchange_backup_session(xdb, mail.session_id,
                  [ emails_backed_up |-> xstats.emails_backed_up,
                    emails_skipped |-> xstats.emails_skipped,
                    status |-> "completed",
                    error_message |-> "NULL" ], clock)
    /\ mail' = [mail EXCEPT !.pc = "print_summary"]
    /\ xrun' = [xrun EXCEPT !.finish_calls = @ + 1]
    /\ UNCHANGED <<xstats, exchangeSide>>

\* _print_summary; backup_all returns.
PrintExchangeSummary ==
    /\ mail.pc = "print_summary"
    /\ mail' = [mail EXCEPT !.pc = "idle"]
    /\ UNCHANGED <<xdb, xstats, xrun, exchangeSide>>

(***************************************************************************)
(* rebuild_databases.py : rebuild_sharepoint_db                            *)
(***************************************************************************)
MaxRebuilds == 2       \* calls of rebuild_sharepoint_db over the tree

\* The names the site directories and the session directories of the tree
\* may have, each list in the order sorted() puts them: pathlib compares
\* paths part by part, the parts as strings.
SiteDirs == <<"Alpha", "Zeta">>
SessionNames == <<"20240101_000000", "20250101_000000">>

IndexOf(seq, x) == CHOOSE i \in 1..Len(seq) : seq[i] = x

SKIP_FILENAMES ==
    { "site_metadata.json", "drive_metadata.json", "backup_statistics.json",
      "backup_manifest.json", "user_metadata.json" }

SKIP_SUFFIXES == { ".log", ".db", ".db-wal", ".db-shm" }

\* What a content file of a session may hold: sha256_file and st_size of it.
TreeContents ==
    { [checksum |-> "aaa", file_size |-> 100],
      [checksum |-> "bbb", file_size |-> 200] }

\* The files below a session directory, in the order of
\* sorted(session_dir.rglob("*")): one document, the log of the run and the
\* site_metadata.json that makes the directory a session.
SessionFiles(content) ==
    << [ rel_path |-> "Documents/a.txt", name |-> "a.txt", suffix |-> ".txt",
         checksum |-> content.checksum, file_size |-> content.file_size,
         mtime |-> "t1" ],
       [ rel_path |-> "backup.log", name |-> "backup.log", suffix |-> ".log",
         checksum |-> "log", file_size |-> 7, mtime |-> "t1" ],
       [ rel_path |-> "site_metadata.json", name |-> "site_metadata.json",
         suffix |-> ".json", checksum |-> "meta", file_size |-> 9,
         mtime |-> "t1" ] >>

\* The session directories a tree may hold: <site_dir>/<name>/ with the
\* site_id its site_metadata.json gives.  A site that was renamed between two
\* backups has sessions under both names.
SessionDirsOfTree ==
    { [ site_dir |-> sd, name |-> n, site_id |-> id, files |-> SessionFiles(c) ] :
        sd \in {"Alpha"}, n \in { SessionNames[i] : i \in 1..Len(SessionNames) },
        id \in Sites, c \in TreeContents }
    \cup
    { [ site_dir |-> sd, name |-> n, site_id |-> id, files |-> SessionFiles(c) ] :
        sd \in {"Zeta"}, n \in { SessionNames[i] : i \in 1..Len(SessionNames) },
        id \in {"site-1"}, c \in TreeContents }

\* The trees: at most one directory for a path.
Trees ==
    { T \in SUBSET SessionDirsOfTree :
        \A s, t \in T : (s.site_dir = t.site_dir /\ s.name = t.name) => s = t }

\* a < b for the paths <root>/<site_dir>/<name>/site_metadata.json of two
\* sessions.
PathBefore(a, b) ==
    \/ IndexOf(SiteDirs, a.site_dir) < IndexOf(SiteDirs, b.site_dir)
    \/ /\ a.site_dir = b.site_dir
       /\ IndexOf(SessionNames, a.name) < IndexOf(SessionNames, b.name)

\* sorted(backup_root.rglob("site_metadata.json")), as the list of the
\* session directories (meta_path.parent).
RECURSIVE SortedMetaFiles(_)
SortedMetaFiles(T) ==
    IF T = {} THEN <<>>
    ELSE LET first == CHOOSE s \in T : \A t \in T \ {s} : PathBefore(s, t)
         IN  <<first>> \o SortedMetaFiles(T \ {first})

ZeroRebuildStats ==
    [ sites_found |-> 0, sessions_found |-> 0, files_scanned |-> 0,
      files_written |-> 0, files_skipped |-> 0, files_errors |-> 0,
      total_bytes |-> 0 ]

\* A rebuild that writes the ledger whether or not dry_run is set.
rebuild_writes_Always(dry_run) == TRUE

\* `if not dry_run:` before db.update_file_record.
rebuild_writes(dry_run) == ~dry_run

\* The body of `for abs_path in sorted(session_dir.rglob("*"))` for one path:
\* acc holds the ledger, the stats and the number of update_file_record calls.
ScanFile(acc, f, site_id, dry_run, now) ==
    IF f.name \in SKIP_FILENAMES \/ f.suffix \in SKIP_SUFFIXES THEN acc
    ELSE LET scanned == [acc EXCEPT !.stats.files_scanned = @ + 1]
             fp == [ file_size |-> f.file_size, last_modified |-> f.mtime,
                     checksum |-> f.checksum ]
             res == IF rebuild_writes(dry_run)
                    THEN update_file_record(acc.db, site_id, "/" \o f.rel_path, fp, now)
                    ELSE [ db |-> acc.db, ok |-> TRUE ]
             called == IF rebuild_writes(dry_run) THEN 1 ELSE 0
         IN  IF res.ok
             THEN [ db |-> res.db,
                    stats |-> [scanned.stats EXCEPT !.files_written = @ + 1,
                                                    !.total_bytes = @ + f.file_size],
                    upserts |-> acc.upserts + called ]
             ELSE [ db |-> res.db,
                    stats |-> [scanned.stats EXCEPT !.files_errors = @ + 1],
                    upserts |-> acc.upserts + called ]

RECURSIVE ScanFiles(_, _, _, _, _)
ScanFiles(acc, files, site_id, dry_run, now) ==
    IF files = <<>> THEN acc
    ELSE ScanFiles(ScanFile(acc, Head(files), site_id, dry_run, now),
                   Tail(files), site_id, dry_run, now)

\* The body of `for meta_path in meta_files` for one session directory.
ScanSession(acc, session_dir, dry_run, now) ==
    IF session_dir.site_dir = "exchange" THEN acc
    ELSE LET found == [acc EXCEPT !.stats.sessions_found = @ + 1,
                                  !.stats.sites_found = @ + 1]
         IN  ScanFiles(found, session_dir.files, session_dir.site_id, dry_run, now)

\* export_to_json: the time of the export and the two SELECT * it dumps, each
\* list as the set of its rows (ORDER BY site_id, file_path and ORDER BY
\* start_time DESC fix the order of the rows of a given set).
export_to_json(d, now) ==
    [ export_timestamp |-> now,
      backup_files |-> d.backup_files,
      backup_history |-> d.backup_history ]

IdleRebuild ==
    [ pc |-> "idle", dry_run |-> FALSE, meta_files |-> <<>>,
      stats |-> ZeroRebuildStats, db0 |-> EmptyDb, upserts |-> 0 ]

\* main() calls rebuild_sharepoint_db(backup_root, db_path, dry_run): the
\* tree is listed and sorted, the counters start at zero.
RebuildSharepointDb(dry_run) ==
    /\ rebuild.pc = "idle"
    /\ Len(rebuilt) < MaxRebuilds
    /\ rebuild' = [ pc |-> "replay", dry_run |-> dry_run,
                    meta_files |-> SortedMetaFiles(tree),
                    stats |-> ZeroRebuildStats, db0 |-> db, upserts |-> 0 ]
    /\ UNCHANGED <<storeVars, main, task, stats, run, exchangeVars, tree, rebuilt, layout, queried, otherVars>>

\* One turn of the loop over meta_files.
ReplaySession ==
    /\ rebuild.pc = "replay"
    /\ rebuild.meta_files # <<>>
    /\ LET acc == ScanSession([ db |-> db, stats |-> rebuild.stats,
                                upserts |-> rebuild.upserts ],
                              Head(rebuild.meta_files), rebuild.dry_run, clock)
       IN  /\ db' = acc.db
           /\ rebuild' = [rebuild EXCEPT !.meta_files = Tail(@),
                                         !.stats = acc.stats,
                                         !.upserts = acc.upserts]
    /\ UNCHANGED <<xdb, edb, clock, up, calls, applied, failed, decision,
                   main, task, stats, run, exchangeVars, tree, rebuilt, layout, queried, otherVars>>

\* rebuild_sharepoint_db returns its stats; the caller then exports the
\* ledger.
RebuildReturns ==
    /\ rebuild.pc = "replay"
    /\ rebuild.meta_files = <<>>
    /\ rebuilt' = Append(rebuilt,
                     [ dry_run |-> rebuild.dry_run, db0 |-> rebuild.db0, db1 |-> db,
                       stats |-> rebuild.stats, upserts |-> rebuild.upserts,
                       export |-> export_to_json(db, clock) ])
    /\ rebuild' = IdleRebuild
    /\ UNCHANGED <<storeVars, main, task, stats, run, exchangeVars, tree, layout, queried, otherVars>>

(***************************************************************************)
(* The tree a run of SharePointIncrementalBackup leaves on disk, and the   *)
(* rebuild of a lost ledger from it.                                       *)
(***************************************************************************)
\* drive.get('name') and item_data.get('name') of the tenant's drives and
\* items, and the directory name _sanitize_filename(site_name) of its sites.
DriveName(drive) == IF drive = "d2" THEN "Shared" ELSE "Documents"

FileName(item) == item \o ".txt"

SiteDirOf(site) == IF site = "site-1" THEN SiteDirs[1] ELSE SiteDirs[2]

\* What _download_file and _download_file_with_checksum left in the drive's
\* directory for an item: the content and <name>.metadata.json when the
\* record was upserted, the content alone when the upsert raised, nothing
\* when the download failed or the unchanged file was unlinked again.
FilesOfItem(drive, item) ==
    LET f == [ site |-> SiteOfDrive(drive), path |-> FilePath(drive, item) ]
        content == [ rel_path |-> DriveName(drive) \o "/" \o FileName(item),
                     name |-> FileName(item), suffix |-> ".txt",
                     checksum |-> RemoteItem.checksum,
                     file_size |-> RemoteItem.file_size, mtime |-> "t1" ]
        metadata == [ rel_path |-> content.rel_path \o ".metadata.json",
                      name |-> FileName(item) \o ".metadata.json", suffix |-> ".json",
                      checksum |-> "metadata of " \o item, file_size |-> 9,
                      mtime |-> "t1" ]
    IN  IF run.outcome[f] = "backed_up" THEN <<content, metadata>>
        ELSE IF run.outcome[f] = "store_error" THEN <<content>>
        ELSE <<>>

RECURSIVE DriveFiles(_, _)
DriveFiles(drive, n) ==
    IF n > Len(ItemsOf(drive)) THEN <<>>
    ELSE FilesOfItem(drive, ItemsOf(drive)[n]) \o DriveFiles(drive, n + 1)

RECURSIVE SiteFiles(_, _)
SiteFiles(site, j) ==
    IF j > Len(DrivesOf(site)) THEN <<>>
    ELSE DriveFiles(DrivesOf(site)[j], 1) \o SiteFiles(site, j + 1)

\* site_path = backup_dir / site_name / timestamp of every site whose
\* _backup_site returned, with the site_metadata.json written first.
DriverTree ==
    { [ site_dir |-> SiteDirOf(site), name |-> SessionNames[1], site_id |-> site,
        files |-> SiteFiles(site, 1) \o
                  << [ rel_path |-> "site_metadata.json", name |-> "site_metadata.json",
                       suffix |-> ".json", checksum |-> "meta", file_size |-> 9,
                       mtime |-> "t1" ] >> ] :
        site \in { x \in {"site-1", "site-2"} : run.site_result[x] = "completed" } }

RECURSIVE ScanSessions(_, _, _, _)
ScanSessions(acc, meta_files, dry_run, now) ==
    IF meta_files = <<>> THEN acc
    ELSE ScanSessions(ScanSession(acc, Head(meta_files), dry_run, now),
                      Tail(meta_files), dry_run, now)

\* The ledger file is lost after the run has ended, and rebuild_sharepoint_db
\* is run over the backup directory of the run into a new ledger.
RebuildAfterRun ==
    /\ main.pc = "done"
    /\ rebuilt = <<>>
    /\ LET acc == ScanSessions([ db |-> EmptyDb, stats |-> ZeroRebuildStats,
                                 upserts |-> 0 ],
                               SortedMetaFiles(DriverTree), FALSE, clock)
       IN  /\ tree' = DriverTree
           /\ db' = acc.db
           /\ rebuilt' = << [ dry_run |-> FALSE, db0 |-> EmptyDb, db1 |-> acc.db,
                              stats |-> acc.stats, upserts |-> acc.upserts,
                              export |-> export_to_json(acc.db, clock) ] >>
    /\ UNCHANGED <<xdb, edb, clock, up, calls, applied, failed, decision,
                   main, task, stats, run, exchangeVars, rebuild, layout,
                   queryVars, otherVars>>

(***************************************************************************)
(* rebuild_databases.py : _session_is_multi_user                           *)
(***************************************************************************)

\* What iterdir() may yield inside a child directory of a session: a message,
\* the sidecar with the owner's identity, a text file, a mail folder holding
\* a message.  suffix is f.suffix.lower().
ChildEntries ==
    { [ name |-> "m1.eml", is_file |-> TRUE, suffix |-> ".eml", entries |-> {} ],
      [ name |-> "user_metadata.json", is_file |-> TRUE, suffix |-> ".json",
        entries |-> {} ],
      [ name |-> "notes.txt", is_file |-> TRUE, suffix |-> ".txt", entries |-> {} ],
      [ name |-> "Inbox", is_file |-> FALSE, suffix |-> "",
        entries |-> {"m2.eml"} ] }

\* The children of a session directory: directories written for an owner
\* (session/<user_name>/...) or for a mail folder (session/<folder_name>/...),
\* and the sidecar of the session.
ChildDirs ==
    { [ name |-> n, is_dir |-> TRUE, role |-> r, entries |-> e ] :
        n \in {"d1", "d2"}, r \in {"owner", "folder"}, e \in SUBSET ChildEntries }

ChildFiles ==
    { [ name |-> "user_metadata.json", is_dir |-> FALSE, role |-> "file",
        entries |-> {} ] }

\* No directory of that name, or one.
ChildDirNamed(n) == { {} } \cup { {c} : c \in { x \in ChildDirs : x.name = n } }

ExchangeSessionDirs ==
    { [ children |-> D1 \cup D2 \cup F ] :
        D1 \in ChildDirNamed("d1"), D2 \in ChildDirNamed("d2"),
        F \in SUBSET ChildFiles }

\* `f.is_file() and f.suffix.lower() in (".eml", ".json") and f.name not in
\* _SKIP_FILENAMES`
IsEmailFile(f) ==
    /\ f.is_file
    /\ f.suffix \in {".eml", ".json"}
    /\ f.name \notin SKIP_FILENAMES

\* _session_is_multi_user without its look into the child directories.
session_is_multi_user_AnyChildDir(session_dir) ==
    { c \in session_dir.children : c.is_dir } # {}

\* _session_is_multi_user: False as soon as a child directory holds an email
\* file directly, has_any_child_dir otherwise.
session_is_multi_user(session_dir) ==
    LET child_dirs == { c \in session_dir.children : c.is_dir }
    IN  IF \E c \in child_dirs : \E f \in c.entries : IsEmailFile(f)
        THEN FALSE
        ELSE child_dirs # {}

IdleLayout ==
    [ pc |-> "idle", session_dir |-> [ children |-> {} ], multi_user |-> FALSE ]

\* rebuild_exchange_db asks for the layout of a session directory.
ClassifySession ==
    /\ layout.pc = "given"
    /\ layout' = [layout EXCEPT !.pc = "classified",
                                !.multi_user = session_is_multi_user(layout.session_dir)]
    /\ UNCHANGED <<storeVars, main, task, stats, run, exchangeVars, tree, rebuild, rebuilt, queried, otherVars>>

\* The ledger file is lost or put aside between two rebuilds: the next
\* BackupChecksumDB(db_path) makes the three tables anew.
LedgerLost ==
    /\ rebuild.pc = "idle"
    /\ rebuilt # <<>>
    /\ db # EmptyDb
    /\ db' = EmptyDb
    /\ UNCHANGED <<xdb, edb, clock, up, calls, applied, failed, decision,
                   main, task, stats, run, exchangeVars, rebuildVars, queried, otherVars>>

(***************************************************************************)
(* rebuild_exchange_db: the Exchange backup tree on disk.                  *)
(***************************************************************************)
\* The user directories under exchange/, as sorted() gives them.
XUserDirs == <<"alice", "all_users">>

\* The names sorted() orders inside a session: upper case before lower case.
XDirOrder == <<"Inbox", "alice">>

\* Graph message ids as they end a file stem: `_(AAMk[A-Za-z0-9_-]{10,})$`
GraphIds == {"AAMk0000000001", "AAMk0000000002", "AAMk0000000003"}

StemOf(id) == "Hi_" \o id

\* extract_msg_id_from_stem: the id part of the stem when the stem ends in
\* one, the whole stem otherwise; the second component of what it returns.
extract_msg_id_from_stem(stem) ==
    IF \E id \in GraphIds : stem = StemOf(id)
    THEN CHOOSE id \in GraphIds : stem = StemOf(id)
    ELSE stem

\* A file of the tree: `readable` is whether open() and read() succeed,
\* `parses` whether json.load succeeds on it, `id` the "id" member of the
\* JSON document ("" when it has none).
XFile(stem, suffix, readable, parses, id) ==
    [ name |-> stem \o suffix, stem |-> stem, suffix |-> suffix,
      is_file |-> TRUE, is_dir |-> FALSE, readable |-> readable,
      parses |-> parses, id |-> id, file_size |-> 100,
      checksum |-> "sha256:" \o stem \o suffix, entries |-> {} ]

XDir(name, entries) ==
    [ name |-> name, stem |-> name, suffix |-> "", is_file |-> FALSE,
      is_dir |-> TRUE, readable |-> TRUE, parses |-> FALSE, id |-> "",
      file_size |-> 0, checksum |-> "", entries |-> entries ]

\* What a folder may hold of one message: the .eml alone, the .eml with its
\* .json, the .json not being JSON, or files that cannot be read.
MessageFiles(id) ==
    { { XFile(StemOf(id), ".eml", TRUE, TRUE, "") },
      { XFile(StemOf(id), ".eml", TRUE, TRUE, ""),
        XFile(StemOf(id), ".json", TRUE, TRUE, id) },
      { XFile(StemOf(id), ".eml", TRUE, TRUE, ""),
        XFile(StemOf(id), ".json", TRUE, FALSE, "") },
      { XFile(StemOf(id), ".json", FALSE, FALSE, "") },
      { XFile(StemOf(id), ".eml", FALSE, TRUE, "") } }

\* user_metadata.json of a session directory: whether it is a file, whether
\* json.load succeeds, and `user_email or userPrincipalName or mail` ("" for
\* a document with none of them).
NoSidecar == [ exists |-> FALSE, parses |-> FALSE, email |-> "" ]

Sidecar(email) == [ exists |-> TRUE, parses |-> TRUE, email |-> email ]

BrokenSidecar == [ exists |-> TRUE, parses |-> FALSE, email |-> "" ]

OwnerSidecarFile ==
    [ name |-> "user_metadata.json", stem |-> "user_metadata", suffix |-> ".json",
      is_file |-> TRUE, is_dir |-> FALSE, readable |-> TRUE, parses |-> TRUE,
      id |-> "", file_size |-> 100, checksum |-> "sha256:user_metadata.json",
      entries |-> {} ]

\* The directory named after an owner: a sidecar or not, a message directly
\* inside or not, a folder with a message or not.
OwnerDirs ==
    { XDir("alice", side \cup direct \cup folder) :
        side \in { {}, {OwnerSidecarFile} },
        direct \in { {}, { XFile(StemOf("AAMk0000000001"), ".eml", TRUE, TRUE, "") } },
        folder \in { {}, { XDir("Inbox",
                               { XFile(StemOf("AAMk0000000002"), ".eml", TRUE, TRUE, "") }) } } }

\* The directory named after a mail folder, with the files of one message.
FolderDirs == { XDir("Inbox", files) : files \in MessageFiles("AAMk0000000003") }

XSession(sidecar, children) ==
    [ sidecar |-> sidecar, children |-> children, missing |-> FALSE ]

NoSession == [ sidecar |-> NoSidecar, children |-> {}, missing |-> TRUE ]

\* The session directories a place of the tree may hold.
XSessionsAt(user_dir, name) ==
    IF user_dir = "alice" /\ name = SessionNames[1]
    THEN { XSession(s, f) :
             s \in { NoSidecar, BrokenSidecar, Sidecar(""), Sidecar("alice@corp") },
             f \in { {} } \cup { {d} : d \in FolderDirs } }
    ELSE IF user_dir = "alice"
    THEN { XSession(s, o) :
             s \in { NoSidecar, Sidecar("a.smith@corp") },
             o \in { {}, { XDir("alice", { XDir("Inbox",
                       { XFile(StemOf("AAMk0000000002"), ".eml", TRUE, TRUE, "") }) }) } } }
    ELSE { XSession(s, f \cup o) :
             s \in { NoSidecar, BrokenSidecar },
             f \in { {}, { XDir("Inbox",
                       { XFile(StemOf("AAMk0000000003"), ".eml", TRUE, TRUE, "") }) } },
             o \in { {} } \cup { {d} : d \in OwnerDirs } }

\* The trees: at each place a session directory or none.
XTrees ==
    { [ user_dir \in {"alice", "all_users"} |->
          [ name \in { SessionNames[1], SessionNames[2] } |->
              IF user_dir = "all_users"
              THEN IF name = SessionNames[1] THEN c ELSE NoSession
              ELSE IF name = SessionNames[1] THEN a ELSE b ] ] :
        a \in XSessionsAt("alice", SessionNames[1]) \cup {NoSession},
        b \in XSessionsAt("alice", SessionNames[2]) \cup {NoSession},
        c \in XSessionsAt("all_users", SessionNames[1]) \cup {NoSession} }

EmptyXTree ==
    [ user_dir \in {"alice", "all_users"} |->
        [ name \in { SessionNames[1], SessionNames[2] } |-> NoSession ] ]

\* The session directories of a user directory, as (user_dir, name) pairs in
\* the order of `sorted(exchange_dir.iterdir())` and `sorted(user_dir.iterdir())`.
XSessionPlaces(t) ==
    SelectSeq(<< <<XUserDirs[1], SessionNames[1]>>, <<XUserDirs[1], SessionNames[2]>>,
                 <<XUserDirs[2], SessionNames[1]>>, <<XUserDirs[2], SessionNames[2]>> >>,
              LAMBDA p : ~t[p[1]][p[2]].missing)

(***************************************************************************)
(* rebuild_exchange_db                                                     *)
(***************************************************************************)
\* What json.load and the three .get calls give for a user_metadata.json: the
\* address, "" when there is no file, no JSON or no address in it.
SidecarEmail(sidecar) ==
    IF sidecar.exists /\ sidecar.parses THEN sidecar.email ELSE ""

\* Phase 0: per user directory other than all_users, the address of the
\* first session directory iterdir() yields whose user_metadata.json gives
\* one; iterdir() yields in any order. "" stands for a name without entry.
UserEmailMaps(t) ==
    { m \in [ {"alice", "all_users"} -> {"", "alice@corp", "a.smith@corp"} ] :
        /\ m["all_users"] = ""
        /\ LET found == { SidecarEmail(t["alice"][n].sidecar) :
                            n \in { SessionNames[1], SessionNames[2] } } \ {""}
           IN  IF found = {} THEN m["alice"] = "" ELSE m["alice"] \in found }

\* user_email_map.get(name, name)
MapGet(user_email_map, name) ==
    IF name \in DOMAIN user_email_map /\ user_email_map[name] # ""
    THEN user_email_map[name]
    ELSE name

\* The identity of a session in the new layout: the map's, overridden by the
\* session's own user_metadata.json when that gives an address.
SessionUserEmail(user_email_map, user_name, session_dir) ==
    IF SidecarEmail(session_dir.sidecar) # ""
    THEN SidecarEmail(session_dir.sidecar)
    ELSE MapGet(user_email_map, user_name)

\* The message files a loop over a directory registers: .eml and .json files
\* other than the skipped names.
EmailFilesIn(entries) == { f \in entries : IsEmailFile(f) }

\* messages[stem] = {"eml": ..., "json": ..., "folder": ...} for each stem of
\* the files; a stem already there keeps its folder.
RECURSIVE RegisterFiles(_, _, _)
RegisterFiles(messages, files, folder_name) ==
    IF files = {} THEN messages
    ELSE LET f == CHOOSE g \in files : TRUE
             known == \E i \in DOMAIN messages : messages[i].stem = f.stem
             slots == IF known THEN messages
                      ELSE Append(messages, [ stem |-> f.stem, eml |-> {},
                                              json |-> {}, folder |-> folder_name ])
             put == [ i \in DOMAIN slots |->
                        IF slots[i].stem # f.stem THEN slots[i]
                        ELSE IF f.suffix = ".eml"
                             THEN [slots[i] EXCEPT !.eml = {f}]
                             ELSE [slots[i] EXCEPT !.json = {f}] ]
         IN  RegisterFiles(put, files \ {f}, folder_name)

\* _collect_messages_from_folder_dir
collect_messages_from_folder_dir(folder_dir, messages) ==
    RegisterFiles(messages, EmailFilesIn(folder_dir.entries), folder_dir.name)

\* The entries of a directory in sorted() order.
SortedEntries(entries) ==
    LET named(n) == { e \in entries : e.name = n }
        rest == { e \in entries : \A i \in DOMAIN XDirOrder : e.name # XDirOrder[i] }
    IN  << named(XDirOrder[1]), named(XDirOrder[2]), rest >>

\* The loop over the children of a directory that holds folders: a folder
\* gives the message files directly inside it, a message file directly in
\* the directory is registered under the folder "root".
CollectFrom(entries) ==
    LET groups == SortedEntries(entries)
        step(messages, group) ==
            LET dirs == { e \in group : e.is_dir }
                afterDirs == IF dirs = {} THEN messages
                             ELSE collect_messages_from_folder_dir(
                                      CHOOSE d \in dirs : TRUE, messages)
            IN  RegisterFiles(afterDirs, EmailFilesIn(group), "root")
    IN  step(step(step(<<>>, groups[1]), groups[2]), groups[3])

ZeroExchangeRebuildStats ==
    [ users_found |-> 0, sessions_found |-> 0, messages_scanned |-> 0,
      messages_written |-> 0, messages_skipped |-> 0, messages_errors |-> 0,
      total_bytes |-> 0 ]

\* The message id _write_messages settles on: the "id" of the .json when it
\* loads and has one; the stem when there is a .json that does not load or
\* has no id; what extract_msg_id_from_stem gives when there is only an .eml.
MessageIdOf(info) ==
    IF info.json # {}
    THEN LET json_file == CHOOSE f \in info.json : TRUE
         IN  IF json_file.readable /\ json_file.parses /\ json_file.id # ""
             THEN json_file.id
             ELSE info.stem
    ELSE extract_msg_id_from_stem(info.stem)

\* One turn of the loop of _write_messages.
WriteMessage(acc, info, user_email, dry_run, now) ==
    LET primary == IF info.json # {} THEN info.json ELSE info.eml
    IN  IF primary = {} THEN acc
        ELSE LET primary_file == CHOOSE f \in primary : TRUE
                 scanned == [acc.stats EXCEPT !.messages_scanned = @ + 1]
                 unit == [ stem |-> info.stem, folder |-> info.folder,
                           user_id |-> user_email, message_id |-> MessageIdOf(info),
                           files |-> info.json \cup info.eml ]
             IN  IF ~primary_file.readable
                 THEN \* sha256_file raises: logger.error, messages_errors += 1
                      [acc EXCEPT !.stats = [scanned EXCEPT !.messages_errors = @ + 1],
                                  !.units = Append(@, unit @@ [ outcome |-> "error",
                                                               upserted |-> FALSE ])]
                 ELSE [ db |-> IF dry_run THEN acc.db
                               ELSE update_email_record(acc.db, user_email,
                                        MessageIdOf(info), primary_file.file_size,
                                        primary_file.checksum, now).db,
                        stats |-> [scanned EXCEPT
                                      !.messages_written = @ + 1,
                                      !.total_bytes = @ + primary_file.file_size],
                        units |-> Append(acc.units, unit @@ [ outcome |-> "written",
                                                              upserted |-> ~dry_run ]) ]

\* _write_messages
RECURSIVE write_messages(_, _, _, _, _)
write_messages(acc, messages, user_email, dry_run, now) ==
    IF messages = <<>> THEN acc
    ELSE write_messages(WriteMessage(acc, Head(messages), user_email, dry_run, now),
                        Tail(messages), user_email, dry_run, now)

\* The old-layout branch: per sub-user directory, in sorted() order, the
\* messages of its folders under the identity the map has for its name.
WriteSubusers(acc, session_dir, user_email_map, dry_run, now) ==
    LET groups == SortedEntries({ c \in session_dir.children : c.is_dir })
        step(a, group) ==
            IF group = {} THEN a
            ELSE LET subuser_dir == CHOOSE c \in group : TRUE
                 IN  write_messages(a, CollectFrom(subuser_dir.entries),
                                    MapGet(user_email_map, subuser_dir.name),
                                    dry_run, now)
    IN  step(step(step(acc, groups[1]), groups[2]), groups[3])

\* The body of the loop over the session directories of rebuild_exchange_db.
ScanExchangeSession(acc, user_name, session_dir, user_email_map, dry_run, now) ==
    LET found == [acc EXCEPT !.stats.sessions_found = @ + 1, !.units = <<>>]
    IN  IF session_is_multi_user(session_dir)
        THEN WriteSubusers(found, session_dir, user_email_map, dry_run, now)
        ELSE write_messages(found, CollectFrom(session_dir.children),
                            SessionUserEmail(user_email_map, user_name, session_dir),
                            dry_run, now)

IdleXRebuild ==
    [ pc |-> "idle", dry_run |-> FALSE, user_email_map |-> <<>>, todo |-> <<>>,
      stats |-> ZeroExchangeRebuildStats, log |-> <<>> ]

\* rebuild_exchange_db is called: the stats are zeroed, the store opened
\* unless dry_run, and phase 0 builds the map of addresses.
RebuildExchangeDb(dry_run) ==
    /\ xrebuild.pc = "idle"
    /\ \E m \in UserEmailMaps(xtree) :
          xrebuild' = [ pc |-> "walk", dry_run |-> dry_run, user_email_map |-> m,
                        todo |-> XSessionPlaces(xtree),
                        stats |-> [ZeroExchangeRebuildStats EXCEPT
                                      !.users_found = Len(XUserDirs)],
                        log |-> <<>> ]
    /\ UNCHANGED <<storeVars, main, task, stats, run, exchangeVars, rebuildVars,
                   queryVars, xtree, graph>>

\* Phase 1 comes to the next session directory.
ReplayExchangeSession ==
    /\ xrebuild.pc = "walk"
    /\ xrebuild.todo # <<>>
    /\ LET place == Head(xrebuild.todo)
           session_dir == xtree[place[1]][place[2]]
           out == ScanExchangeSession([ db |-> xdb, stats |-> xrebuild.stats,
                                        units |-> <<>> ],
                                      place[1], session_dir, xrebuild.user_email_map,
                                      xrebuild.dry_run, clock)
       IN  /\ xdb' = out.db
           /\ xrebuild' = [xrebuild EXCEPT
                  !.todo = Tail(@),
                  !.stats = out.stats,
                  !.log = Append(@, [ user_dir |-> place[1], name |-> place[2],
                                      session_dir |-> session_dir,
                                      multi_user |-> session_is_multi_user(session_dir),
                                      units |-> out.units ])]
    /\ UNCHANGED <<db, edb, clock, up, calls, applied, failed, decision,
                   main, task, stats, run, exchangeVars, rebuildVars,
                   queryVars, xtree, graph>>

\* `return stats`
RebuildExchangeReturns ==
    /\ xrebuild.pc = "walk"
    /\ xrebuild.todo = <<>>
    /\ xrebuild' = [xrebuild EXCEPT !.pc = "returned"]
    /\ UNCHANGED <<storeVars, main, task, stats, run, exchangeVars, rebuildVars,
                   queryVars, xtree, graph>>

(***************************************************************************)
(* _make_graph_request of SharePointIncrementalBackup and of               *)
(* OptimizedExchangeBackup: one call after the other on one driver object. *)
(* The answers of Graph and of the token endpoint are inputs of the steps. *)
(***************************************************************************)
MaxGraphCalls == 2

GraphDrivers == {"sharepoint", "exchange"}

\* The status codes of a response; "exception" stands for requests raising.
GraphAnswers == {200, 401, 403, 404, 503}

IdleGraph ==
    [ pc |-> "idle", driver |-> "sharepoint", calls |-> 0, token |-> 0,
      sent |-> <<>>, proactive |-> 0, reactive |-> 0, response |-> 0 ]

\* Where _make_graph_request goes after the retry when it asks for a fresh
\* token on every 401.
after_retry_UntilAccepted(status) == IF status = 401 THEN "reactive" ELSE "returned"

\* Where _make_graph_request goes after the retry: `return response`.
after_retry(status) == "returned"

\* _make_graph_request is called; _refresh_token_if_needed finds the token
\* older than 50 minutes (stale) or not.
MakeGraphRequest(driver, stale) ==
    /\ graph.pc = "idle"
    /\ graph.calls < MaxGraphCalls
    /\ graph' = [graph EXCEPT !.pc = IF stale THEN "proactive" ELSE "request",
                              !.driver = driver,
                              !.calls = @ + 1,
                              !.sent = <<>>, !.proactive = 0, !.reactive = 0,
                              !.response = 0]
    /\ UNCHANGED <<storeVars, main, task, stats, run, exchangeVars, rebuildVars,
                   queryVars, xtree, xrebuild>>

\* _refresh_token_if_needed calls _get_access_token: a new token, or the
\* exception of raise_for_status, which leaves _make_graph_request.
RefreshTokenIfNeeded(granted) ==
    /\ graph.pc = "proactive"
    /\ graph' = IF granted
                THEN [graph EXCEPT !.pc = "request", !.token = @ + 1,
                                   !.proactive = @ + 1]
                ELSE [graph EXCEPT !.pc = "raised"]
    /\ UNCHANGED <<storeVars, main, task, stats, run, exchangeVars, rebuildVars,
                   queryVars, xtree, xrebuild>>

\* The first requests.request: an exception leaves _make_graph_request, a 401
\* leads to the refresh, any other response is returned.
SendRequest(answer, raises) ==
    /\ graph.pc = "request"
    /\ graph' = IF raises THEN [graph EXCEPT !.pc = "raised"]
                ELSE [graph EXCEPT
                        !.sent = Append(@, [ status |-> answer, token |-> graph.token ]),
                        !.response = answer,
                        !.pc = IF answer = 401 THEN "reactive" ELSE "returned"]
    /\ UNCHANGED <<storeVars, main, task, stats, run, exchangeVars, rebuildVars,
                   queryVars, xtree, xrebuild>>

\* After a 401: _get_access_token, and the Authorization header is set anew.
RefreshAfter401(granted) ==
    /\ graph.pc = "reactive"
    /\ graph' = IF granted
                THEN [graph EXCEPT !.pc = "retry", !.token = @ + 1,
                                   !.reactive = @ + 1]
                ELSE [graph EXCEPT !.pc = "raised"]
    /\ UNCHANGED <<storeVars, main, task, stats, run, exchangeVars, rebuildVars,
                   queryVars, xtree, xrebuild>>

\* The request is sent again with the new token; its response is returned.
RetryRequest(answer, raises) ==
    /\ graph.pc = "retry"
    /\ graph' = IF raises THEN [graph EXCEPT !.pc = "raised"]
                ELSE [graph EXCEPT
                        !.sent = Append(@, [ status |-> answer, token |-> graph.token ]),
                        !.response = answer,
                        !.pc = after_retry(answer)]
    /\ UNCHANGED <<storeVars, main, task, stats, run, exchangeVars, rebuildVars,
                   queryVars, xtree, xrebuild>>

\* The caller has the response or the exception; the driver object stays.
GraphCallEnds ==
    /\ graph.pc \in {"returned", "raised"}
    /\ graph' = [graph EXCEPT !.pc = "idle"]
    /\ UNCHANGED <<storeVars, main, task, stats, run, exchangeVars, rebuildVars,
                   queryVars, xtree, xrebuild>>

InitOther ==
    /\ xtree = EmptyXTree
    /\ xrebuild = IdleXRebuild
    /\ graph = IdleGraph

InitRebuild ==
    /\ tree = {}
    /\ rebuild = IdleRebuild
    /\ rebuilt = <<>>
    /\ layout = IdleLayout
    /\ queried = NoStats
    /\ InitOther

vars == <<db, xdb, edb, clock, up, calls, applied, failed, decision,
          main, task, stats, run, mail, xstats, xrun, tree, rebuild, rebuilt, layout,
          queried, xtree, xrebuild, graph>>

(***************************************************************************)
(* Spec: BackupChecksumDB under concurrent callers of update_file_record,  *)
(* with sessions being started and pruned as the days pass.                *)
(***************************************************************************)
Init == InitStore /\ InitDriver /\ InitExchange /\ InitRebuild

Next ==
    \/ \E w \in Workers, site \in Sites, path \in Paths, fp \in Fingerprints :
          UpsertSelect(w, site, path, fp)
    \/ \E w \in Workers : UpsertWrite(w)
    \/ StartSession("incremental")
    \/ Tick
    \/ \E k \in KeepDays : Prune(k)

Spec == Init /\ [][Next]_vars

(***************************************************************************)
(* SpecSeq: one caller that upserts and asks the checksum strategy.        *)
(***************************************************************************)
CandidateChecksums == {"aaa", "bbb"}
CandidateSizes == {100, 200}
CandidateETags == {"e1", "e2", ""}

NextSeq ==
    \/ \E site \in Sites, path \in Paths, fp \in Fingerprints :
          SeqUpsert(site, path, fp)
    \/ \E site \in Sites, path \in Paths, c \in CandidateChecksums,
          s \in CandidateSizes : DecideByChecksum(site, path, c, s)
    \/ Tick

SpecSeq == Init /\ [][NextSeq]_vars

(***************************************************************************)
(* SpecPrune: one caller that upserts, starts sessions and prunes as the   *)
(* days pass, on the file store and on the Exchange store.                 *)
(***************************************************************************)
NextPrune ==
    \/ \E site \in Sites, path \in Paths, fp \in Fingerprints :
          SeqUpsert(site, path, fp)
    \/ \E backup_type \in BackupTypes : OpenSessions(backup_type)
    \/ \E keep_days \in KeepDays : PruneStores(keep_days)
    \/ Tick

SpecPrune == Init /\ [][NextPrune]_vars

(***************************************************************************)
(* SpecStats: one caller that runs sessions one after the other as the     *)
(* days pass and asks for the statistics, on a new store or on one that    *)
(* holds earlier sessions.                                                 *)
(***************************************************************************)
StatDays == {1, 30}

\* The stores are new, or hold the sessions of earlier days.
InitSpecStats ==
    /\ \E n \in {0, PriorSessions} :
          /\ db = EarlierSessions(n).file
          /\ xdb = EarlierSessions(n).exchange
    /\ edb = EmptyEdb
    /\ clock = 0
    /\ up = [w \in Workers |-> IdleUp]
    /\ calls = 0
    /\ applied = [k \in Keys |-> <<>>]
    /\ failed = {}
    /\ decision = NoDecision
    /\ InitDriver
    /\ InitExchange
    /\ InitRebuild

NextStats ==
    \/ BeginSession("incremental")
    \/ \E status \in {"completed", "failed"} : EndSession(status)
    \/ \E days \in StatDays : QueryStats(days)
    \/ Tick

SpecStats == InitSpecStats /\ [][NextStats]_vars

(***************************************************************************)
(* SpecTag: one caller of the enhanced store that upserts and asks the     *)
(* server-tag strategy.                                                    *)
(***************************************************************************)
\* What update_file_record of the enhanced store is called with: an eTag, the
\* empty string, or no eTag argument, which leaves the parameter at None.
TagFingerprints ==
    Fingerprints \cup
    { [file_size |-> 100, last_modified |-> "t1", checksum |-> "aaa", eTag |-> t] :
        t \in {"", PyNone} }

\* file_meta.get('eTag', '') of the candidate: an eTag, the empty string
\* (also for a file_meta without the key), or None for a key that holds None.
CandidateTags == CandidateETags \cup {PyNone}

NextTag ==
    \/ \E site \in Sites, path \in Paths, fp \in TagFingerprints :
          TagUpsert(site, path, fp)
    \/ \E site \in Sites, path \in Paths, t \in CandidateTags,
          s \in CandidateSizes : DecideByMetadata(site, path, t, s)

SpecTag == Init /\ [][NextTag]_vars

(***************************************************************************)
(* SpecDriver: one run of backup_all_sites over the ledger an earlier run  *)
(* left.                                                                   *)
(***************************************************************************)
PriorFingerprints == Fingerprints \cup {NoFp}

\* What the earlier run may have stored of a file: anything for the first item
\* of a drive of the first site, nothing or the present content for the rest.
PriorOf(f) ==
    IF f.path \in {FilePath("d1", "f1"), FilePath("d2", "f2")}
    THEN PriorFingerprints
    ELSE {NoFp, RemoteItem}

RECURSIVE SumSizes(_)
SumSizes(rows) ==
    IF rows = {} THEN 0
    ELSE LET r == CHOOSE x \in rows : TRUE
         IN  r.file_size + SumSizes(rows \ {r})

\* The store after an earlier full run that stored the prior fingerprints and
\* finished its session; the untouched store when there was no such run.
EarlierRun(prior) ==
    IF \A f \in AllFiles : prior[f] = NoFp THEN EmptyDb
    ELSE LET started == start_backup_session(EmptyDb, "full", 0)
             filled == PriorLedger(started, AllFiles, prior)
         IN  update_backup_session(filled, started.seq_backup_history,
                 [ files_backed_up |-> Cardinality(filled.backup_files),
                   files_skipped |-> 0,
                   total_size |-> SumSizes(filled.backup_files),
                   status |-> "completed",
                   error_message |-> "NULL" ], 0)

InitSpecDriver ==
    /\ \E prior \in [AllFiles -> PriorFingerprints] :
          /\ \A f \in AllFiles : prior[f] \in PriorOf(f)
          /\ db = EarlierRun(prior)
    /\ xdb = EmptyXdb
    /\ edb = EmptyEdb
    /\ clock = 0
    /\ up = [w \in Workers |-> IdleUp]
    /\ calls = 0
    /\ applied = [k \in Keys |-> <<>>]
    /\ failed = {}
    /\ decision = NoDecision
    /\ InitDriver
    /\ InitExchange
    /\ InitRebuild

NextDriver ==
    \/ \E backup_type \in BackupTypes : BackupAllSites(backup_type)
    \/ \E listed \in BOOLEAN : GetAllSites(listed)
    \/ SiteKeyError
    \/ BackupSiteRaises
    \/ \E listed \in BOOLEAN : BackupSite(listed)
    \/ FutureResult
    \/ BackupSiteReturns
    \/ FinishCompleted
    \/ PrintSummary
    \/ FinishFailed
    \/ \E d \in AllDrives : BackupDrive(d)
    \/ \E d \in AllDrives : BackupDriveRaises(d)
    \/ \E d \in AllDrives, listed \in BOOLEAN : BackupFolder(d, listed)
    \/ \E d \in AllDrives : ProcessFile(d)
    \/ \E d \in AllDrives, fetched \in BOOLEAN : DownloadFile(d, fetched)
    \/ \E d \in AllDrives, fetched \in BOOLEAN : DownloadFileWithChecksum(d, fetched)
    \/ \E d \in AllDrives : TaskUpsertSelect(d)
    \/ \E d \in AllDrives : TaskUpsertWrite(d)
    \/ \E d \in AllDrives : LoadCounter(d)
    \/ \E d \in AllDrives : StoreCounter(d)

SpecDriver == InitSpecDriver /\ [][NextDriver]_vars

(***************************************************************************)
(* SpecRecover: one run of backup_all_sites, after which the ledger is     *)
(* rebuilt from the tree the run wrote.                                    *)
(***************************************************************************)
NextRecover ==
    \/ \E backup_type \in BackupTypes : BackupAllSites(backup_type)
    \/ \E listed \in BOOLEAN : GetAllSites(listed)
    \/ SiteKeyError
    \/ BackupSiteRaises
    \/ \E listed \in BOOLEAN : BackupSite(listed)
    \/ FutureResult
    \/ BackupSiteReturns
    \/ FinishCompleted
    \/ PrintSummary
    \/ FinishFailed
    \/ \E d \in AllDrives : BackupDrive(d)
    \/ \E d \in AllDrives : BackupDriveRaises(d)
    \/ \E d \in AllDrives, listed \in BOOLEAN : BackupFolder(d, listed)
    \/ \E d \in AllDrives : ProcessFile(d)
    \/ \E d \in AllDrives, fetched \in BOOLEAN : DownloadFile(d, fetched)
    \/ \E d \in AllDrives, fetched \in BOOLEAN : DownloadFileWithChecksum(d, fetched)
    \/ \E d \in AllDrives : TaskUpsertSelect(d)
    \/ \E d \in AllDrives : TaskUpsertWrite(d)
    \/ \E d \in AllDrives : LoadCounter(d)
    \/ \E d \in AllDrives : StoreCounter(d)
    \/ RebuildAfterRun

SpecRecover == InitSpecDriver /\ [][NextRecover]_vars

(***************************************************************************)
(* SpecExchange: runs of backup_all, one after the other, from an empty    *)
(* ledger.                                                                 *)
(***************************************************************************)
NextExchange ==
    \/ \E backup_type \in BackupTypes : BackupAll(backup_type)
    \/ \E listed \in BOOLEAN : GetUsers(listed)
    \/ BackupUserRaises
    \/ \E ids \in SUBSET MessageIds : ClassifyFolder(ids)
    \/ \E result \in FetchResults : FetchEmail(result)
    \/ BatchFetched
    \/ \E written \in BOOLEAN, attachments \in Attachments :
          BackupSingleEmail(written, attachments)
    \/ FolderDone
    \/ UserDone
    \/ FinishExchangeCompleted
    \/ PrintExchangeSummary

SpecExchange == Init /\ [][NextExchange]_vars

(***************************************************************************)
(* SpecRebuild: rebuild_sharepoint_db run over one backup tree, once or    *)
(* again, with or without --dry-run, starting from an empty ledger.        *)
(***************************************************************************)
InitSpecRebuild ==
    /\ InitStore
    /\ InitDriver
    /\ InitExchange
    /\ tree \in Trees
    /\ rebuild = IdleRebuild
    /\ rebuilt = <<>>
    /\ layout = IdleLayout
    /\ queried = NoStats
    /\ InitOther

NextRebuild ==
    \/ \E dry_run \in BOOLEAN : RebuildSharepointDb(dry_run)
    \/ ReplaySession
    \/ RebuildReturns
    \/ LedgerLost
    \/ Tick

SpecRebuild == InitSpecRebuild /\ [][NextRebuild]_vars

(***************************************************************************)
(* SpecLayout: _session_is_multi_user applied to a session directory.      *)
(***************************************************************************)
InitSpecLayout ==
    /\ InitStore
    /\ InitDriver
    /\ InitExchange
    /\ tree = {}
    /\ rebuild = IdleRebuild
    /\ rebuilt = <<>>
    /\ \E sd \in ExchangeSessionDirs :
          layout = [ pc |-> "given", session_dir |-> sd, multi_user |-> FALSE ]
    /\ queried = NoStats
    /\ InitOther

NextLayout == ClassifySession

SpecLayout == InitSpecLayout /\ [][NextLayout]_vars

(***************************************************************************)
(* SpecExchangeRebuild: rebuild_exchange_db run once over one Exchange     *)
(* backup tree, with or without --dry-run, starting from an empty ledger.  *)
(***************************************************************************)
InitSpecExchangeRebuild ==
    /\ InitStore
    /\ InitDriver
    /\ InitExchange
    /\ tree = {}
    /\ rebuild = IdleRebuild
    /\ rebuilt = <<>>
    /\ layout = IdleLayout
    /\ queried = NoStats
    /\ xtree \in XTrees
    /\ xrebuild = IdleXRebuild
    /\ graph = IdleGraph

NextExchangeRebuild ==
    \/ \E dry_run \in BOOLEAN : RebuildExchangeDb(dry_run)
    \/ ReplayExchangeSession
    \/ RebuildExchangeReturns

SpecExchangeRebuild == InitSpecExchangeRebuild /\ [][NextExchangeRebuild]_vars

(***************************************************************************)
(* SpecGraph: calls of _make_graph_request, one after the other.           *)
(***************************************************************************)
NextGraph ==
    \/ \E driver \in GraphDrivers, stale \in BOOLEAN : MakeGraphRequest(driver, stale)
    \/ \E granted \in BOOLEAN : RefreshTokenIfNeeded(granted)
    \/ \E answer \in GraphAnswers, raises \in BOOLEAN : SendRequest(answer, raises)
    \/ \E granted \in BOOLEAN : RefreshAfter401(granted)
    \/ \E answer \in GraphAnswers, raises \in BOOLEAN : RetryRequest(answer, raises)
    \/ GraphCallEnds

SpecGraph == Init /\ [][NextGraph]_vars

\* The interpreter keeps running the thread in backup_all_sites and the pool
\* threads for as long as one of them has a step to take.
SpecDriverFair == SpecDriver /\ WF_vars(NextDriver)

(***************************************************************************)
(* Claims                                                                  *)
(***************************************************************************)

\* The i-th history row of a record, in insertion (id) order.
IsIthRow(H, h, i) == Cardinality({ g \in H : g.id < h.id }) = i - 1

\* C1: an Upsert on a key with no record creates it at version 1 with no
\* history row; an Upsert on a key with a record appends exactly one history
\* row holding the pre-update version, checksum and size and raises version by
\* one.  So after N Upserts on one key version = N, the key has N-1 history
\* rows, the i-th row is the state left by the i-th Upsert, and GetRecord
\* returns the last fingerprint -- in the file store and in the Exchange store.
C1_MonotonicVersioning ==
    \A k \in Keys :
        LET a == applied[k]
            n == Len(a)
            rows == SelectFile(db, k[1], k[2])
            xrows == SelectEmail(xdb, k[1], k[2])
        IN  IF n = 0 THEN rows = {} /\ xrows = {}
            ELSE /\ \A i \in 1..n : /\ a[i].version = i /\ a[i].history = i - 1
                                    /\ a[i].xversion = i /\ a[i].xhistory = i - 1
                 /\ Cardinality(rows) = 1
                 /\ Cardinality(xrows) = 1
                 /\ \A r \in get_file_record(db, k[1], k[2]) :
                      /\ r.version = n
                      /\ r.checksum_sha256 = a[n].fp.checksum
                      /\ r.file_size = a[n].fp.file_size
                      /\ r.last_modified = a[n].fp.last_modified
                      /\ Cardinality(HistoryOf(db, r.id)) = n - 1
                      /\ \A i \in 1..(n - 1) : \E h \in HistoryOf(db, r.id) :
                            /\ IsIthRow(HistoryOf(db, r.id), h, i)
                            /\ h.version = i
                            /\ h.checksum_sha256 = a[i].fp.checksum
                            /\ h.file_size = a[i].fp.file_size
                 /\ \A r \in get_email_record(xdb, k[1], k[2]) :
                      /\ r.version = n
                      /\ r.checksum_sha256 = a[n].fp.checksum
                      /\ r.message_size = a[n].fp.file_size
                      /\ Cardinality(EmailHistoryOf(xdb, r.id)) = n - 1
                      /\ \A i \in 1..(n - 1) : \E h \in EmailHistoryOf(xdb, r.id) :
                            /\ IsIthRow(EmailHistoryOf(xdb, r.id), h, i)
                            /\ h.version = i
                            /\ h.checksum_sha256 = a[i].fp.checksum
                            /\ h.message_size = a[i].fp.file_size

\* Three Upserts with pairwise distinct fingerprints went to one key.
C1_Witness ==
    \E k \in Keys :
        /\ Len(applied[k]) = 3
        /\ applied[k][1].fp # applied[k][2].fp
        /\ applied[k][2].fp # applied[k][3].fp
        /\ applied[k][1].fp # applied[k][3].fp
        /\ \E r \in db.backup_files :
              r.site_id = k[1] /\ r.file_path = k[2] /\ r.version = 3

\* C2 as stated: the second of two successive Upserts with the same
\* fingerprint leaves version where the first left it and adds no history
\* row (file store and enhanced store).
C2_UpsertIdempotent ==
    \A k \in Keys : \A i \in 1..(Len(applied[k]) - 1) :
        applied[k][i].fp = applied[k][i + 1].fp =>
            /\ applied[k][i + 1].version = applied[k][i].version
            /\ applied[k][i + 1].history = applied[k][i].history
            /\ applied[k][i + 1].eversion = applied[k][i].eversion
            /\ applied[k][i + 1].ehistory = applied[k][i].ehistory

\* C2 amended: the store does not deduplicate.  The second of two successive
\* Upserts with the same fingerprint raises version by exactly one and adds
\* exactly one history row, and that row holds the fingerprint and the version
\* the first call left (file store and enhanced store).
C2_SecondUpsertArchives ==
    \A k \in Keys : \A i \in 1..(Len(applied[k]) - 1) :
        applied[k][i].fp = applied[k][i + 1].fp =>
            /\ applied[k][i + 1].version = applied[k][i].version + 1
            /\ applied[k][i + 1].history = applied[k][i].history + 1
            /\ applied[k][i + 1].eversion = applied[k][i].eversion + 1
            /\ applied[k][i + 1].ehistory = applied[k][i].ehistory + 1
            /\ \A r \in SelectFile(db, k[1], k[2]) :
                  \E h \in HistoryOf(db, r.id) :
                      /\ h.version = applied[k][i].version
                      /\ h.checksum_sha256 = applied[k][i].fp.checksum
                      /\ h.file_size = applied[k][i].fp.file_size
            /\ \A r \in enhanced_get_file_record_ByKey(edb, k[1], k[2]) :
                  \E h \in HistoryOf(edb, r.id) :
                      /\ h.version = applied[k][i].eversion
                      /\ h.checksum_sha256 = applied[k][i].fp.checksum
                      /\ h.eTag = applied[k][i].fp.eTag

\* The same fingerprint was upserted twice in a row on one key.
C2_Witness ==
    \E k \in Keys :
        /\ Len(applied[k]) >= 2
        /\ applied[k][1].fp = applied[k][2].fp
        /\ \E r \in db.backup_files :
              r.site_id = k[1] /\ r.file_path = k[2] /\ r.version >= 2

\* C4: in every reachable state, whatever Upserts (concurrent ones included)
\* and Prunes ran, there is at most one current record per (site_id, file_path).
C4_OneRecordPerKey ==
    \A r1, r2 \in db.backup_files :
        (r1.site_id = r2.site_id /\ r1.file_path = r2.file_path) => r1 = r2

\* Two workers raced to insert the same key (one of them was refused), and a
\* Prune has deleted a session.
C4_Witness ==
    /\ failed # {}
    /\ db.backup_files # {}
    /\ db.seq_backup_history > 0
    /\ db.backup_history = {}

\* The decision table of the checksum strategy, read off the table itself.
C5_Table ==
    decision.kind = "checksum" =>
        LET rows == { r \in db.backup_files :
                        r.site_id = decision.site /\ r.file_path = decision.path }
        IN  /\ rows = {} => Classify(decision.ret) = "New"
            /\ \A r \in rows :
                  /\ decision.size # r.file_size => Classify(decision.ret) = "Changed"
                  /\ (decision.size = r.file_size
                        /\ decision.checksum # r.checksum_sha256)
                        => Classify(decision.ret) = "Changed"
                  /\ (decision.size = r.file_size
                        /\ decision.checksum = r.checksum_sha256)
                        => Classify(decision.ret) = "Unchanged"

\* C5: is_file_unchanged answers New when no record exists, else Changed when
\* the size differs, else Changed when the checksum differs, else Unchanged;
\* and the call leaves the ledger as it found it.
C5_ChecksumStrategy ==
    /\ [](C5_Table)
    /\ [][(decision' # decision /\ decision'.kind = "checksum") => db' = db]_vars

\* The strategy answered Changed for a candidate whose size equals the
\* record's and whose checksum differs.
C5_Witness ==
    /\ decision.kind = "checksum"
    /\ Classify(decision.ret) = "Changed"
    /\ \E r \in decision.ret.record :
          r.file_size = decision.size /\ r.checksum_sha256 # decision.checksum

\* C6: the server-tag strategy decides by the record of the candidate's own
\* (site_id, file_path) key: New when the enhanced store holds no record of that
\* key, Changed when the candidate's eTag or size differs from that record's,
\* Unchanged otherwise.
C6_TagStrategy ==
    decision.kind = "metadata" =>
        LET own == { r \in edb.backup_files :
                       r.site_id = decision.site /\ r.file_path = decision.path }
        IN  Classify(decision.ret) =
              IF own = {} THEN "New"
              ELSE IF \E r \in own : decision.eTag # r.eTag \/ decision.size # r.file_size
                   THEN "Changed"
                   ELSE "Unchanged"

\* The record the run found of a file, and whether it has the size and the
\* checksum the file has now.
PriorRecord(f) == get_file_record(run.db0, f.site, f.path)

SameAsRemote(f) ==
    /\ PriorRecord(f) # {}
    /\ \A r \in PriorRecord(f) : /\ r.file_size = RemoteItem.file_size
                                 /\ r.checksum_sha256 = RemoteItem.checksum

\* The content of the file was fetched and _process_file is through with it.
Fetched(f) == run.outcome[f] \in {"skipped", "backed_up", "store_error"}

GateSkips(f) ==
    /\ run.upserts[f] = 0
    /\ Fetched(f) =>
          /\ run.outcome[f] = "skipped"
          /\ get_file_record(db, f.site, f.path) = PriorRecord(f)
          /\ \A r \in PriorRecord(f) : HistoryOf(db, r.id) = HistoryOf(run.db0, r.id)

\* C3 (as stated): in a backup of any kind, a file whose fetched size and
\* checksum equal those of its record is counted as skipped and is not
\* upserted: the record, its version and its history stay as they were.
C3_GateSkips ==
    \A f \in AllFiles : SameAsRemote(f) => GateSkips(f)

\* C3 (amended): the same, in an incremental backup.
C3_GateSkipsIncremental ==
    main.backup_type = "incremental" =>
        \A f \in AllFiles : SameAsRemote(f) => GateSkips(f)

C3_Witness ==
    /\ main.backup_type = "incremental"
    /\ main.pc = "done"
    /\ stats.files_skipped >= 1
    /\ \E f \in AllFiles : SameAsRemote(f) /\ run.outcome[f] = "skipped"

Terminal == {"completed", "failed"}

SessionOfRun == { s \in db.backup_history : s.id = main.session_id }

C9_Lifecycle ==
    /\ run.finish_calls <= 1
    /\ main.pc # "idle" =>
          /\ Cardinality(SessionOfRun) = 1
          /\ \A s \in SessionOfRun :
                /\ run.finish_calls = 0 => s.status = "running"
                /\ run.finish_calls = 1 => s.status \in Terminal
    /\ main.pc \in {"done", "raised"} => run.finish_calls = 1

\* C9: Start creates the session with status running; in a run Finish
\* (update_backup_session) is called exactly once and moves the session to
\* completed or failed; once the status is terminal no step of the run changes
\* it.
C9_SessionLifecycle ==
    /\ [](C9_Lifecycle)
    /\ [][\A s \in db.backup_history :
             s.status \in Terminal =>
                \E t \in db'.backup_history : t.id = s.id /\ t.status = s.status]_vars

C9_Witness ==
    /\ main.pc = "done"
    /\ run.finish_calls = 1
    /\ stats.files_backed_up >= 1
    /\ \A s \in SessionOfRun : s.status = "completed"

FilesOfDrive(d) ==
    { [site |-> SiteOfDrive(d), path |-> FilePath(d, ItemsOf(d)[n])] :
        n \in 1..Len(ItemsOf(d)) }

DrivesOfSite(s) == { d \in AllDrives : SiteOfDrive(d) = s }

\* The task of the drive is over, and unless it raised or could not list its
\* folder every item of the folder went through _process_file.
DriveProcessed(d) ==
    /\ task[d].state \in {"finished", "raised"}
    /\ (task[d].state = "finished" /\ task[d].k > 0) =>
          \A f \in FilesOfDrive(d) : run.outcome[f] # "pending"

RunEnded == main.pc \in {"print_summary", "done", "finish_failed", "raised"}

C10_Isolation ==
    /\ \A s \in DOMAIN run.site_result :
          (run.site_result[s] # "pending" /\
           \E d \in DrivesOfSite(s) : task[d].state = "raised") =>
             /\ run.site_result[s] = "completed"
             /\ \A d \in DrivesOfSite(s) : DriveProcessed(d)
    /\ (RunEnded /\ ~run.key_error) =>
          /\ main.pc \in {"print_summary", "done"}
          /\ \A n \in 1..Len(main.sites) :
                LET s == main.sites[n]
                IN  /\ run.site_result[s] \in {"completed", "failed"}
                    /\ run.site_result[s] = "completed" =>
                          \/ \A d \in DrivesOfSite(s) : task[d].state = "none"
                          \/ \A d \in DrivesOfSite(s) : DriveProcessed(d)

LedgerIds(user) ==
    { r.message_id : r \in { e \in xdb.email_messages : e.user_id = user } }

\* C7: of the N ids a folder lists, the immutable-id strategy takes as new
\* exactly those the ledger does not hold for that mailbox and skips the K it
\* holds: N-K new, K skipped; only new ids are fetched, and no message is
\* taken as changed, so no record ever gets a second version.
C7_SetDifference ==
    /\ mail.pc = "classified" =>
          LET ledger == LedgerIds(mail.users[mail.i])
              N == Cardinality(mail.current)
              K == Cardinality(mail.current \cap ledger)
          IN  /\ mail.new = mail.current \ ledger
              /\ mail.skipped = mail.current \cap ledger
              /\ Cardinality(mail.new) = N - K
              /\ Cardinality(mail.skipped) = K
    /\ mail.pc \in {"classified", "backup", "folder_done"} =>
          \A msg \in MessageIds : xrun.fetch[msg] # "none" => msg \in mail.new
    /\ \A r \in xdb.email_messages : r.version = 1
    /\ xdb.email_history = {}

C7_Witness ==
    /\ mail.pc = "classified"
    /\ Cardinality(mail.current) = 3
    /\ Cardinality(mail.skipped) = 2
    /\ Cardinality(mail.new) = 1
    /\ mail.to_fetch = {}
    /\ \E other \in {"u2@x"} : LedgerIds(other) # {}

\* C8: when the folder of a mailbox is done, every new id whose fetch failed
\* or whose message came without body content has no record in the ledger,
\* and an exception was raised for it.
C8_FailedFetchIsHardFailure ==
    mail.pc = "folder_done" =>
        \A msg \in mail.new :
            xrun.fetch[msg] \in {"failed", "no_body"} =>
                /\ get_email_record(xdb, mail.users[mail.i], msg) = {}
                /\ msg \in xrun.raised

\* No pool task is submitted and unfinished.
Quiesced == \A d \in AllDrives : task[d].state \in {"none", "finished", "raised"}

\* C11: update_backup_session of the run is called only when every task
\* submitted in the run has returned or raised, and after it no task runs,
\* no record or history row is written and no counter of the run changes.
C11_FinishAfterWorkers ==
    /\ []((RunEnded \/ run.finish_calls >= 1) => Quiesced)
    /\ [][(run.finish_calls' # run.finish_calls) => Quiesced]_vars
    /\ [][(run.finish_calls >= 1) =>
             /\ task' = task
             /\ stats' = stats
             /\ run.upserts' = run.upserts
             /\ db.backup_files' = db.backup_files
             /\ db.file_history' = db.file_history]_vars

C11_Witness ==
    /\ main.pc = "done"
    /\ run.finish_calls = 1
    /\ \A d \in AllDrives : task[d].state = "finished"
    /\ stats.files_backed_up >= 2
    /\ stats.files_skipped >= 1

\* What failed in the run: downloads, drive tasks, sites.
RunFailures ==
    Cardinality({ f \in AllFiles : run.outcome[f] \in {"download_failed", "store_error"} })
    + Cardinality({ d \in AllDrives : task[d].state = "raised" })
    + Cardinality({ s \in DOMAIN run.site_result : run.site_result[s] = "failed" })

\* The columns of backup_history that say when, what kind, how many files and
\* bytes were backed up or skipped, and how the session ended.
NonFailureColumns ==
    { "id", "backup_type", "start_time", "end_time", "files_backed_up",
      "files_skipped", "total_size", "status", "error_message" }

\* C12: a run that came to its end with failed files, drives or sites has
\* finished its session as completed, and the session row holds a nonzero
\* count of the failures.
C12_CompletedWithFailureCount ==
    (main.pc = "done" /\ RunFailures > 0) =>
        \A s \in SessionOfRun :
            /\ s.status = "completed"
            /\ \E c \in DOMAIN s \ NonFailureColumns : s[c] > 0

\* The request of _get_all_sites failed: the tenant has sites and none came
\* back.
ListingFailed == main.pc \notin {"idle", "get_sites"} /\ main.sites = <<>>

\* An sqlite3 error reached the driver.
StoreFailed == \E f \in AllFiles : run.outcome[f] = "store_error"

\* C13: the session of a run that is over has status failed, with
\* error_message set, exactly when the store failed or the sites could not be
\* listed; a run whose listing failed is failed, not completed.
C13_FailedIffUnreachable ==
    main.pc \in {"done", "raised"} =>
        \A s \in SessionOfRun :
            (s.status = "failed" /\ s.error_message # "NULL")
                <=> (ListingFailed \/ StoreFailed)

\* The files of a session that rebuild_sharepoint_db takes for units.
ContentFiles(s) ==
    { s.files[i] : i \in { j \in 1..Len(s.files) :
                             /\ s.files[j].name \notin SKIP_FILENAMES
                             /\ s.files[j].suffix \notin SKIP_SUFFIXES } }

\* The unit keys (site_id, rel_path) of the tree.
TreeKeys ==
    UNION { { <<s.site_id, "/" \o f.rel_path>> : f \in ContentFiles(s) } : s \in tree }

\* The sessions of the tree that hold the unit k.
SessionsHolding(k) ==
    { s \in tree : s.site_id = k[1]
                   /\ \E f \in ContentFiles(s) : "/" \o f.rel_path = k[2] }

\* The sessions of S with the greatest timestamp in the directory name.
Latest(S) ==
    { s \in S : \A t \in S :
                   IndexOf(SessionNames, t.name) <= IndexOf(SessionNames, s.name) }

\* C14: after a rebuild that wrote the ledger, the record of every unit key of
\* the tree holds the checksum and the size the unit has in a session with the
\* greatest timestamp among the sessions that contain it, whatever the site
\* directories above the sessions are called.
C14_LatestSessionWins ==
    \A i \in 1..Len(rebuilt) :
        ~rebuilt[i].dry_run =>
            \A k \in TreeKeys :
                LET rows == get_file_record(rebuilt[i].db1, k[1], k[2])
                IN  /\ rows # {}
                    /\ \A r \in rows :
                          \E s \in Latest(SessionsHolding(k)) :
                              \E f \in ContentFiles(s) :
                                  /\ "/" \o f.rel_path = k[2]
                                  /\ r.checksum_sha256 = f.checksum
                                  /\ r.file_size = f.file_size

\* C15: a rebuild with dry_run set calls update_file_record not once and no
\* step of it changes the ledger, so it returns with the records, the history
\* and the sessions it found; and the stats it returns are the stats a rebuild
\* of the same tree without dry_run returns.
C15_DryRunReportsOnly ==
    /\ [][(rebuild.pc = "replay" /\ rebuild.dry_run) => db' = db]_vars
    /\ [](\A i \in 1..Len(rebuilt) :
             rebuilt[i].dry_run =>
                 /\ rebuilt[i].upserts = 0
                 /\ rebuilt[i].db1 = rebuilt[i].db0
                 /\ \A j \in 1..Len(rebuilt) :
                       ~rebuilt[j].dry_run => rebuilt[j].stats = rebuilt[i].stats)

C15_Witness ==
    /\ Len(rebuilt) = 2
    /\ ~rebuilt[1].dry_run
    /\ rebuilt[2].dry_run
    /\ rebuilt[2].db0.backup_files # {}
    /\ rebuilt[2].db0.file_history # {}
    /\ rebuilt[2].stats.sessions_found >= 2
    /\ rebuilt[2].stats.files_written >= 2
    /\ rebuilt[2].stats.total_bytes >= 300

\* C16: two rebuilds of the same tree that wrote the ledger, both begun on
\* the same ledger and each followed by an export, give the same exported
\* records, field by field with version and backup_timestamp, and the same
\* exported session rows.
C16_RebuildTwiceSameExport ==
    \A i, j \in 1..Len(rebuilt) :
        /\ i < j
        /\ ~rebuilt[i].dry_run
        /\ ~rebuilt[j].dry_run
        /\ rebuilt[i].db0 = rebuilt[j].db0
        => /\ rebuilt[i].export.backup_files = rebuilt[j].export.backup_files
           /\ rebuilt[i].export.backup_history = rebuilt[j].export.backup_history

\* The child directories of the session directory that was classified.
ChildDirsOf(session_dir) == { c \in session_dir.children : c.is_dir }

\* Every child directory was written for an owner / for a mail folder, and
\* each holds a message directly inside.
ContentDirectlyIn(session_dir, role) ==
    /\ ChildDirsOf(session_dir) # {}
    /\ \A c \in ChildDirsOf(session_dir) :
          /\ c.role = role
          /\ \E f \in c.entries : IsEmailFile(f)

\* C17: _session_is_multi_user returns True (aggregated layout) for a session
\* directory whose messages lie directly inside owner directories, and False
\* (direct layout) for one whose messages lie directly inside mail-folder
\* directories.
C17_LayoutClassifier ==
    layout.pc = "classified" =>
        /\ ContentDirectlyIn(layout.session_dir, "owner") => layout.multi_user
        /\ ContentDirectlyIn(layout.session_dir, "folder") => ~layout.multi_user

\* The records, the history rows of every record and the row counters of the
\* file store are in e what they are in d.
RecordsKept(d, e) ==
    /\ e.backup_files = d.backup_files
    /\ e.file_history \subseteq d.file_history
    /\ \A r \in d.backup_files : HistoryOf(e, r.id) = HistoryOf(d, r.id)
    /\ e.seq_backup_files = d.seq_backup_files
    /\ e.seq_file_history = d.seq_file_history
    /\ e.seq_backup_history = d.seq_backup_history

EmailsKept(x, y) ==
    /\ y.email_messages = x.email_messages
    /\ y.email_history \subseteq x.email_history
    /\ \A r \in x.email_messages : EmailHistoryOf(y, r.id) = EmailHistoryOf(x, r.id)
    /\ y.seq_email_messages = x.seq_email_messages
    /\ y.seq_email_history = x.seq_email_history
    /\ y.seq_exchange_backup_history = x.seq_exchange_backup_history

\* C18: a cleanup_old_records(keep_days) step removes the session rows that
\* started before now - keep_days and no other session row, leaves every
\* current record as it is, and removes no history row of a record that
\* exists: the history rows of every record are the same before and after,
\* in the file store and in the Exchange store.
C18_PruneFrame ==
    [][\A keep_days \in KeepDays :
          PruneStores(keep_days) =>
              /\ RecordsKept(db, db')
              /\ EmailsKept(xdb, xdb')
              /\ db'.backup_history =
                    { s \in db.backup_history : ~(s.start_time < clock - keep_days) }
              /\ xdb'.exchange_backup_history =
                    { s \in xdb.exchange_backup_history :
                        ~(s.start_time < clock - keep_days) }]_vars

C18_Witness ==
    /\ db.seq_backup_history >= 1
    /\ db.backup_history = {}
    /\ xdb.seq_exchange_backup_history >= 1
    /\ xdb.exchange_backup_history = {}
    /\ \E r \in db.backup_files : r.version >= 2 /\ HistoryOf(db, r.id) # {}
    /\ \E r \in xdb.email_messages : r.version >= 2 /\ EmailHistoryOf(xdb, r.id) # {}

\* C19: when the concurrent callers of update_file_record have all returned,
\* none of the calls has raised, and every key holds what running its calls
\* one after the other leaves: one record, at the version that counts the
\* calls, with one history row per call after the first, and the content of
\* the call that wrote last.
C19_ConcurrentUpsertsSerialize ==
    (\A w \in Workers : up[w].pc = "idle") =>
        /\ failed = {}
        /\ \A k \in Keys :
              LET n == Len(applied[k])
                  rows == SelectFile(db, k[1], k[2])
              IN  IF n = 0 THEN rows = {}
                  ELSE /\ Cardinality(rows) = 1
                       /\ \A r \in rows :
                             /\ r.version = n
                             /\ Cardinality(HistoryOf(db, r.id)) = n - 1
                             /\ r.checksum_sha256 = applied[k][n].fp.checksum
                             /\ r.file_size = applied[k][n].fp.file_size

\* What a SUM of the statistics holds is the total of col over rows; NULL
\* stands for a total of zero.
SumIs(sum, rows, col) ==
    IF sum = {} THEN Total(rows, col) = 0 ELSE sum = { Total(rows, col) }

\* The rows of a session table started within the window of the query.
InWindow(rows) == { s \in rows : s.start_time > queried.now - queried.days }

\* The store has had one session, and it was finished inside the window.
OneSessionFinished ==
    /\ db.seq_backup_history = 1
    /\ \E s \in InWindow(db.backup_history) : s.status # "running"

\* What get_backup_stats and get_exchange_backup_stats returned counts and
\* sums the rows `files` and `emails`, and lists at most ten sessions.
StatsAreOver(files, emails) ==
    /\ queried.file.total_backups = Cardinality(files)
    /\ SumIs(queried.file.total_files_backed_up, files, "files_backed_up")
    /\ SumIs(queried.file.total_files_skipped, files, "files_skipped")
    /\ SumIs(queried.file.total_size_backed_up, files, "total_size")
    /\ Len(queried.file.recent_backups) <= RecentLimit
    /\ queried.exchange.total_backups = Cardinality(emails)
    /\ SumIs(queried.exchange.total_emails_backed_up, emails, "emails_backed_up")
    /\ SumIs(queried.exchange.total_emails_skipped, emails, "emails_skipped")
    /\ Len(queried.exchange.recent_backups) <= RecentLimit

\* C20 as stated: the statistics count and sum all session rows started
\* within the window, list at most ten sessions, and count 1 after one
\* session was started and finished inside the window on an empty store.
C20_StatsOverWindow ==
    queried.kind = "stats" =>
        /\ StatsAreOver(InWindow(db.backup_history),
                        InWindow(xdb.exchange_backup_history))
        /\ OneSessionFinished => queried.file.total_backups = 1

Completed(rows) == { s \in rows : s.status = "completed" }

\* C20 amended: the statistics count and sum the session rows with status
\* completed that started within the window; running and failed sessions are
\* not counted.  The list holds the latest completed sessions of the whole
\* table, most recent first, never more than ten.  After one session was
\* started and finished as completed inside the window on an empty store the
\* count is 1, and 0 when it was finished as failed.
C20_StatsOverCompleted ==
    queried.kind = "stats" =>
        /\ StatsAreOver(InWindow(Completed(db.backup_history)),
                        InWindow(Completed(xdb.exchange_backup_history)))
        /\ \A i \in 1..Len(queried.file.recent_backups) :
              /\ queried.file.recent_backups[i] \in Completed(db.backup_history)
              /\ \A s \in Completed(db.backup_history) :
                    \/ \E j \in 1..Len(queried.file.recent_backups) :
                          queried.file.recent_backups[j] = s
                    \/ s.start_time <= queried.file.recent_backups[i].start_time
        /\ \A i, j \in 1..Len(queried.file.recent_backups) :
              i < j => queried.file.recent_backups[i].start_time
                          >= queried.file.recent_backups[j].start_time
        /\ Len(queried.file.recent_backups) =
              IF Cardinality(Completed(db.backup_history)) < RecentLimit
              THEN Cardinality(Completed(db.backup_history)) ELSE RecentLimit
        /\ OneSessionFinished =>
              queried.file.total_backups =
                  Cardinality(Completed(db.backup_history))

\* More than ten completed sessions, some of them before the window, and a
\* failed session inside it.
C20_Witness ==
    /\ queried.kind = "stats"
    /\ queried.days = 1
    /\ Cardinality(Completed(db.backup_history)) > RecentLimit
    /\ Len(queried.file.recent_backups) = RecentLimit
    /\ queried.file.total_backups >= 1
    /\ queried.file.total_backups < Cardinality(Completed(db.backup_history))
    /\ \E s \in InWindow(db.backup_history) : s.status = "failed"

(***************************************************************************)
(* Claims on rebuild_exchange_db                                           *)
(***************************************************************************)
SeqRange(seq) == { seq[i] : i \in DOMAIN seq }

\* Every immediate child directory holds no content file directly inside,
\* and there is a child directory.
AggregatedShape(session_dir) ==
    /\ ChildDirsOf(session_dir) # {}
    /\ \A c \in ChildDirsOf(session_dir) : \A f \in c.entries : ~IsEmailFile(f)

\* The (owner directory, folder, file) places of the content files one level
\* below the child directories.
UnitsBelowOwners(session_dir) ==
    UNION { UNION { { <<c.name, d.name, f.name>> : f \in EmailFilesIn(d.entries) } :
                      d \in { e \in c.entries : e.is_dir } } :
              c \in ChildDirsOf(session_dir) }

\* The (folder, file) places of the content files directly inside the child
\* directories.
UnitsInFolders(session_dir) ==
    UNION { { <<c.name, f.name>> : f \in EmailFilesIn(c.entries) } :
              c \in ChildDirsOf(session_dir) }

\* C21: for every session directory the rebuild came to, it took the
\* aggregated layout, reading the units one level below each owner directory,
\* exactly when the session has a child directory and none of its child
\* directories holds a content file directly; in every other case, a session
\* without child directory included, it took the direct layout and read the
\* units directly inside the child directories; and two sessions with the
\* same content got the same decision whatever else the tree holds.
C21_LayoutPerSession ==
    \A i \in DOMAIN xrebuild.log :
        LET e == xrebuild.log[i]
            read == UNION { { <<u.folder, f.name>> : f \in u.files } :
                              u \in SeqRange(e.units) }
        IN  /\ e.multi_user <=> AggregatedShape(e.session_dir)
            /\ e.multi_user =>
                  read = { <<p[2], p[3]>> : p \in UnitsBelowOwners(e.session_dir) }
            /\ ~e.multi_user => read = UnitsInFolders(e.session_dir)
            /\ \A j \in DOMAIN xrebuild.log :
                  xrebuild.log[j].session_dir = e.session_dir
                      => xrebuild.log[j].multi_user = e.multi_user

\* A rebuild returned from a tree in which one session was read in the
\* aggregated layout and another in the direct layout, each with a unit, and
\* a third session without child directory was taken as direct.
C21_Witness ==
    /\ xrebuild.pc = "returned"
    /\ \E i, j, k \in DOMAIN xrebuild.log :
          /\ xrebuild.log[i].multi_user /\ xrebuild.log[i].units # <<>>
          /\ ~xrebuild.log[j].multi_user /\ xrebuild.log[j].units # <<>>
          /\ ~xrebuild.log[k].multi_user /\ xrebuild.log[k].session_dir.children = {}

\* Some child directories hold content files directly while others hold only
\* subdirectories with content below them.
AmbiguousShape(session_dir) ==
    /\ \E c \in ChildDirsOf(session_dir) : EmailFilesIn(c.entries) # {}
    /\ \E c \in ChildDirsOf(session_dir) :
          /\ EmailFilesIn(c.entries) = {}
          /\ \E d \in c.entries : d.is_dir /\ EmailFilesIn(d.entries) # {}

\* C22: a session directory in which some child directories hold content
\* files directly and others hold only subdirectories with content below them
\* is skipped by the rebuild: none of its units is scanned or upserted.
C22_AmbiguousSessionSkipped ==
    \A i \in DOMAIN xrebuild.log :
        AmbiguousShape(xrebuild.log[i].session_dir)
            => /\ xrebuild.log[i].units = <<>>
               /\ \A r \in xdb.email_messages :
                     \A f \in UNION { EmailFilesIn(c.entries) :
                                        c \in ChildDirsOf(xrebuild.log[i].session_dir) } :
                        r.checksum_sha256 # f.checksum

\* The identities the sessions under exchange/<owner>/ give for an owner
\* directory name in their sidecars.
SidecarIdentities(owner) ==
    IF owner \in DOMAIN xtree
    THEN { SidecarEmail(xtree[owner][n].sidecar) : n \in DOMAIN xtree[owner] } \ {""}
    ELSE {}

\* The identity an owner of a session is to be recorded under: the one of the
\* session's own sidecar; without it one that a session with the same owner
\* directory name supplies; without any the bare directory name.
OwnerIdentities(e, owner) ==
    IF SidecarEmail(e.session_dir.sidecar) # ""
    THEN { SidecarEmail(e.session_dir.sidecar) }
    ELSE IF SidecarIdentities(owner) # {} THEN SidecarIdentities(owner)
    ELSE { owner }

\* The units of a session that lie in the folders of an owner directory.
UnitsOfOwner(e, c) ==
    { u \in SeqRange(e.units) :
        \E d \in c.entries : d.is_dir /\ u.files \subseteq d.entries }

\* C23: in every session the rebuild came to, the units of every owner are
\* recorded under the identity of the session's own sidecar when it gives one,
\* else under an identity that a sidecar of a session with the same owner
\* directory name gives, and under the bare directory name only when no
\* session gives one; in the direct layout the owner is the user directory of
\* the session, in the aggregated layout each owner directory inside it
\* (an owner directory with a sidecar of its own is left open).
C23_OwnerIdentity ==
    \A i \in DOMAIN xrebuild.log :
        LET e == xrebuild.log[i]
        IN  IF e.multi_user
            THEN \A c \in ChildDirsOf(e.session_dir) :
                    OwnerSidecarFile \notin c.entries
                        => \A u \in UnitsOfOwner(e, c) :
                              u.user_id \in OwnerIdentities(e, c.name)
            ELSE \A u \in SeqRange(e.units) :
                    u.user_id \in OwnerIdentities(e, e.user_dir)

(***************************************************************************)
(* Claims on the counters of the SharePoint driver                         *)
(***************************************************************************)
\* C24: when backup_all_sites has finished its session as completed, the
\* session row's files_backed_up is the number of files the run upserted and
\* its files_skipped the number of files the run found unchanged, however the
\* pool threads were interleaved.
C24_CountersMatchOutcomes ==
    main.pc \in {"print_summary", "done"}
        => \A s \in SessionOfRun :
              /\ s.files_backed_up = Cardinality({ f \in AllFiles : run.upserts[f] > 0 })
              /\ s.files_skipped
                    = Cardinality({ f \in AllFiles : run.outcome[f] = "skipped" })

(***************************************************************************)
(* Claims on partially fetched units                                       *)
(***************************************************************************)
\* C25: the ledger holds no record of a unit whose content was not fetched
\* in full: no message of the pass that lacks an attachment it has on the
\* server, because the download of the attachment failed, has a record.
C25_NoRecordOfPartialFetch ==
    \A msg \in xrun.partial :
        \A r \in xdb.email_messages : r.message_id # msg

(***************************************************************************)
(* Claims on missing server tags                                           *)
(***************************************************************************)
MissingTag == {"", PyNone}

\* C26: in the server-tag strategy a candidate without eTag is Unchanged
\* against a record that was upserted without eTag and has the candidate's
\* size, and Changed against a record that was upserted with a non-empty
\* eTag.
C26_MissingTagIsEmpty ==
    (decision.kind = "metadata" /\ decision.eTag \in MissingTag) =>
        \A r \in decision.ret.record :
            /\ (r.eTag \in MissingTag /\ r.file_size = decision.size)
                  => Classify(decision.ret) = "Unchanged"
            /\ r.eTag \notin MissingTag => Classify(decision.ret) = "Changed"

(***************************************************************************)
(* Claims on unreadable units of a rebuild                                 *)
(***************************************************************************)
\* The unit's content cannot be read, or its .json exists and cannot be
\* parsed.
UnitUnreadable(u) ==
    \/ \E f \in u.files : ~f.readable
    \/ \E f \in u.files : f.suffix = ".json" /\ ~f.parses

\* C27: every unit the Exchange rebuild came to whose content cannot be read,
\* or whose .json file exists and cannot be parsed, was counted as an error
\* and not upserted, and the units after it were still processed: the errors
\* counted are as many as those units.
C27_UnreadableUnitIsError ==
    LET units == UNION { SeqRange(xrebuild.log[i].units) : i \in DOMAIN xrebuild.log }
    IN  /\ \A u \in units :
              UnitUnreadable(u) => u.outcome = "error" /\ ~u.upserted
        /\ xrebuild.pc = "returned" =>
              xrebuild.stats.messages_errors
                  = Cardinality({ u \in units : UnitUnreadable(u) })

(***************************************************************************)
(* Claims on _make_graph_request                                           *)
(***************************************************************************)
\* C28: in one call of _make_graph_request whose first request is answered
\* 401, the token is fetched anew once and, when that succeeds, the request
\* is sent once more with the new token; the response of that second request
\* is what the call returns, also when it is 401 again; no call sends more
\* than two requests or fetches a token after a 401 more than once, and no
\* request is sent a second time after another answer than 401.
C28_OneRefreshOneRetry ==
    /\ Len(graph.sent) <= 2
    /\ graph.reactive <= 1
    /\ Len(graph.sent) = 2 =>
          /\ graph.sent[1].status = 401
          /\ graph.reactive = 1
          /\ graph.sent[2].token = graph.sent[1].token + 1
          /\ graph.pc \in {"returned", "idle"}
          /\ graph.response = graph.sent[2].status
    /\ (graph.pc = "returned" /\ graph.sent[1].status = 401) => Len(graph.sent) = 2
    /\ (graph.pc = "returned" /\ graph.sent[1].status # 401) =>
          Len(graph.sent) = 1 /\ graph.reactive = 0

\* A call returned the 401 of its retry: two requests were sent, both
\* answered 401, with one refresh between them.
C28_Witness ==
    /\ graph.pc = "returned"
    /\ Len(graph.sent) = 2
    /\ graph.sent[1].status = 401
    /\ graph.sent[2].status = 401
    /\ graph.reactive = 1
    /\ graph.response = 401

(***************************************************************************)
(* Claims on the ledger rebuilt from the driver's tree                     *)
(***************************************************************************)
\* C29: after the ledger was rebuilt from the tree a run of the driver wrote,
\* it holds for every file the run backed up a record under the key
\* (site_id, /drives/<drive_id>/items/<item_id>) the driver looks it up by,
\* with the checksum of the file, so that the next incremental run finds the
\* unchanged file unchanged.
C29_RebuiltLedgerHasDriverKeys ==
    rebuilt # <<>> =>
        \A f \in AllFiles :
            run.outcome[f] = "backed_up" =>
                /\ get_file_record(db, f.site, f.path) # {}
                /\ process_file_unchanged(get_file_record(db, f.site, f.path),
                                          RemoteItem.checksum)

(***************************************************************************)
(* Claims on convergence of the immutable-identifier driver                *)
(***************************************************************************)
\* The pass over the folder of the current user has listed, and classified,
\* exactly what the latest finished pass over the same folder listed.
SameListingAgain ==
    /\ mail.pc = "classified"
    /\ mail.current = xrun.last[mail.users[mail.i]].listed

\* C30 as stated: a later run over the same unchanged listing of a mailbox
\* classifies no identifier as New.
C30_SecondRunNothingNew ==
    SameListingAgain => mail.new = {}

\* C30: a later run over the same unchanged listing of a mailbox classifies
\* as New exactly the identifiers that the earlier run listed and did not
\* bring into the ledger (the fetch failed, the message had no body, or the
\* file was not written); every other identifier the earlier run listed is
\* in the ledger of the mailbox, so that nothing is New when nothing was
\* lost.
C30_SecondRunRetriesLost ==
    SameListingAgain =>
        LET user == mail.users[mail.i]
            last == xrun.last[user]
        IN  /\ mail.new = last.lost
            /\ last.listed \ last.lost \subseteq LedgerIds(user)
            /\ last.lost \cap LedgerIds(user) = {}

C30_Witness ==
    /\ SameListingAgain
    /\ xrun.runs = 2
    /\ mail.users[mail.i] = "u1@x"
    /\ Cardinality(mail.current) = 3
    /\ Cardinality(xrun.last["u1@x"].lost) = 1
    /\ Cardinality(mail.skipped) = 2

====
